---- MODULE Spec2Model ----
(***************************************************************************)
(* Verification model of the Quant_Pricer numeric engines.                 *)
(*                                                                         *)
(* Doubles are modelled as fixed-point integers:                           *)
(*   yields            in units of 1/YScale                                *)
(*   discount factors  in units of 1/DScale                                *)
(*   prices, amounts   in units of 1/PScale                                *)
(*   times             in units of 1/TScale year                           *)
(* Every product/quotient is rounded to the nearest unit (MulDivR), the    *)
(* way a double operation rounds to the nearest representable value.       *)
(* NaN is a sentinel that every arithmetic helper propagates and every     *)
(* comparison rejects; +inf and -inf are sentinels above and below every    *)
(* finite value, so that ordinary comparisons order them as doubles do.     *)
(***************************************************************************)
EXTENDS Integers, Sequences, FiniteSets, TLC

\* ------------------------------------------------------------------------
\* Representation of double
\* ------------------------------------------------------------------------
YScale == 262144
DScale == 16777216
PScale == 1048576
TScale == 2
RateScale == 100
NaN == -2000000000
PInf == 1999999999
NInf == -1999999999

IsNaN(x) == x = NaN

Abs(x) == IF x < 0 THEN -x ELSE x

\* a - b on doubles
FSub(a, b) == IF IsNaN(a) \/ IsNaN(b) THEN NaN ELSE a - b

\* a + b on doubles
FAdd(a, b) == IF IsNaN(a) \/ IsNaN(b) THEN NaN ELSE a + b

\* the test `a * b > 0` on doubles: both operands have the same strict sign
ProductPositive(a, b) ==
    /\ ~IsNaN(a)
    /\ ~IsNaN(b)
    /\ \/ (a > 0 /\ b > 0)
       \/ (a < 0 /\ b < 0)

\* the test `a * b < 0` on doubles: the operands have opposite strict signs
ProductNegative(a, b) ==
    /\ ~IsNaN(a)
    /\ ~IsNaN(b)
    /\ \/ (a > 0 /\ b < 0)
       \/ (a < 0 /\ b > 0)

\* <<q, r>> with a*b = q*c + r and 0 <= r < c, for 0 <= a < 2^25,
\* 0 <= b < 2^30 and 0 < c <= 2^25: long multiplication over the six 5-bit
\* digits of b, so that no intermediate value leaves the machine integer range
Chunk == 32

MulDivStep(qr, a, digit, c) ==
    LET s == qr[2] * Chunk + a * digit
    IN  <<qr[1] * Chunk + (s \div c), s % c>>

Digit(b, k) == (b \div (Chunk ^ k)) % Chunk

MulDivQR(a, b, c) ==
    LET s5 == MulDivStep(<<0, 0>>, a, Digit(b, 5), c)
        s4 == MulDivStep(s5, a, Digit(b, 4), c)
        s3 == MulDivStep(s4, a, Digit(b, 3), c)
        s2 == MulDivStep(s3, a, Digit(b, 2), c)
        s1 == MulDivStep(s2, a, Digit(b, 1), c)
    IN  MulDivStep(s1, a, Digit(b, 0), c)

\* a*b/c for a, b >= 0, c > 0, rounded to the nearest unit
MulDivR(a, b, c) ==
    IF a = 0 \/ b = 0 THEN 0
    ELSE LET qr == MulDivQR(a, b, c)
         IN  IF 2 * qr[2] >= c THEN qr[1] + 1 ELSE qr[1]

\* a*b/c with a of either sign
SMulDivR(a, b, c) == IF a < 0 THEN -MulDivR(-a, b, c) ELSE MulDivR(a, b, c)

\* n/d for d # 0, rounded to the nearest unit
DivRound(n, d) ==
    LET an == Abs(n)
        ad == Abs(d)
        q  == (2 * an + ad) \div (2 * ad)
    IN  IF (n < 0) = (d < 0) THEN q ELSE -q

\* ------------------------------------------------------------------------
\* Compounding (core/DiscountCurve.hpp): the enum's numeric codes
\* ------------------------------------------------------------------------
Annual == 1
Semi == 2
Quarterly == 4
Monthly == 12
Continuous == 0

\* ------------------------------------------------------------------------
\* std::exp and std::pow on the fixed-point grid
\* ------------------------------------------------------------------------
ExpTerms == 12
ExpReduce == 8

\* sum of the series 1 + z + z^2/2! + ... for z = Z/ZS of either sign,
\* |z| <= 1/2, in units of 1/DScale
RECURSIVE ExpSeries(_, _, _, _, _)
ExpSeries(Z, ZS, n, term, acc) ==
    IF term = 0 \/ n > ExpTerms THEN acc
    ELSE ExpSeries(Z, ZS, n + 1,
                   DivRound(IF Z < 0 THEN -SMulDivR(term, -Z, ZS)
                            ELSE SMulDivR(term, Z, ZS), n),
                   acc + term)

\* v^2 in units of 1/DScale
FSquare(v) == MulDivR(v, v, DScale)

\* std::exp(X/XS) in units of 1/DScale, for |X/XS| <= 4: the argument is
\* reduced by ExpReduce, the series summed and the result raised to ExpReduce
FExp(X, XS) == FSquare(FSquare(FSquare(ExpSeries(X, ExpReduce * XS, 1, DScale, 0))))

\* std::pow(num/den, -n) for an integral n >= 0, in units of 1/DScale
RECURSIVE FPowNeg(_, _, _)
FPowNeg(num, den, n) ==
    IF n = 0 THEN DScale ELSE MulDivR(FPowNeg(num, den, n - 1), den, num)

\* ------------------------------------------------------------------------
\* DiscountCurve
\* ------------------------------------------------------------------------
\* DiscountCurve::DiscountCurve(flatYield, cmp, dc) throws std::invalid_argument
\* for a non-finite yield
FlatCurveThrows(flatYield) == IsNaN(flatYield) \/ flatYield = PInf \/ flatYield = NInf

\* the flat curve object: empty boot_ marks a flat curve
FlatCurve(flatYield, cmp) == [boot |-> <<>>, y |-> flatYield, m |-> cmp]

\* DiscountCurve::df(t), flat branch; t in units of 1/TScale
dfFlat(curve, t) ==
    IF t <= 0 THEN DScale
    ELSE IF curve.m = Continuous
         THEN FExp(-(curve.y * t), YScale * TScale)
         ELSE FPowNeg(curve.m * YScale + curve.y, curve.m * YScale,
                      (curve.m * t) \div TScale)

\* std::isnan(x) || std::isinf(x)
NonFinite_NaNOnly(x) == IsNaN(x)
NonFinite(x) == IsNaN(x) \/ x = PInf \/ x = NInf

\* ------------------------------------------------------------------------
\* std::log on the fixed-point grid
\* ------------------------------------------------------------------------
LogTerms == 21
LogScale == 2097152

\* sum of z^n / n over the odd n from n on, pow = z^n and z2 = z^2, in units
\* of 1/DScale
RECURSIVE LogSeries(_, _, _, _)
LogSeries(z2, n, pow, acc) ==
    IF pow = 0 \/ n > LogTerms THEN acc
    ELSE LogSeries(z2, n + 2, SMulDivR(pow, z2, DScale), acc + DivRound(pow, n))

\* std::log(x) for 0 < x <= 1 in units of 1/DScale, the result in units of
\* 1/LogScale: ln x = 2 atanh((x - 1) / (x + 1))
FLog(x) ==
    IF IsNaN(x) \/ x < 0 THEN NaN
    ELSE IF x = 0 THEN NInf
    ELSE LET z == SMulDivR(x - DScale, DScale, x + DScale)
         IN  DivRound(2 * LogSeries(MulDivR(Abs(z), Abs(z), DScale), 1, z, 0),
                      DScale \div LogScale)

\* ------------------------------------------------------------------------
\* DiscountCurve, bootstrapped
\* ------------------------------------------------------------------------
\* the quote on which the bootstrapped constructor's validation loop throws
QuoteInvalid(quote) ==
    \/ NonFinite(quote.time)
    \/ quote.time <= 0
    \/ NonFinite(quote.df)
    \/ quote.df <= 0

\* DiscountCurve::DiscountCurve(quotes) throws std::invalid_argument
BootCurveThrows_FirstOnly(quotes) ==
    \/ quotes = <<>>
    \/ QuoteInvalid(quotes[1])

BootCurveThrows(quotes) ==
    \/ quotes = <<>>
    \/ \E i \in 1..Len(quotes) : QuoteInvalid(quotes[i])

\* the orders std::sort may leave the quotes in: the comparator looks at the
\* time only and the sort is not stable, so quotes of equal time may end in
\* any order
SortedByTime_Unsorted(quotes) == {quotes}

SortedByTime(quotes) ==
    LET n == Len(quotes)
        perms == {f \in [1..n -> 1..n] : \A i, j \in 1..n : i # j => f[i] # f[j]}
    IN  {[i \in 1..n |-> quotes[f[i]]] : f \in
            {g \in perms : \A i \in 1..(n - 1) :
                              ~(quotes[g[i + 1]].time < quotes[g[i]].time)}}

\* the bootstrapped curve object
BootCurve(sorted) == [boot |-> sorted, y |-> 0, m |-> Continuous]

\* std::lower_bound(boot_.begin(), boot_.end(), {t, 0}, by time): the index
\* of the first quote whose time is not less than t, Len + 1 for end()
lower_bound(boot, t) ==
    IF \E i \in 1..Len(boot) : ~(boot[i].time < t)
    THEN CHOOSE i \in 1..Len(boot) :
            /\ ~(boot[i].time < t)
            /\ \A j \in 1..(i - 1) : boot[j].time < t
    ELSE Len(boot) + 1

\* the value df returns below the first quote
FlatBelow(boot) == boot[1].df

\* the value df returns above the last quote
FlatAbove_First(boot) == boot[1].df
FlatAbove(boot) == boot[Len(boot)].df

\* lines 142-166: interpolation between the quotes prev and it
Interpolate_Linear(prev, it, t) ==
    IF it.time = prev.time THEN prev.df
    ELSE prev.df + SMulDivR(it.df - prev.df, t - prev.time, it.time - prev.time)

Interpolate(prev, it, t) ==
    IF prev.df <= 0 \/ it.df <= 0
    THEN IF it.time = prev.time THEN prev.df
         ELSE prev.df + SMulDivR(it.df - prev.df, t - prev.time, it.time - prev.time)
    ELSE IF it.time = prev.time THEN prev.df
    ELSE LET l0    == FLog(prev.df)
             l1    == FLog(it.df)
             logDF == l0 + SMulDivR(l1 - l0, t - prev.time, it.time - prev.time)
         IN  FExp(logDF, LogScale)

\* the test `t <= 0.0` that returns 1.0
AtOrBeforeToday_Strict(t) == t < 0
AtOrBeforeToday(t) == t <= 0

\* DiscountCurve::df(t), bootstrapped branch, for a finite t
dfBoot(curve, t) ==
    IF AtOrBeforeToday(t) THEN DScale
    ELSE LET it == lower_bound(curve.boot, t)
         IN  IF it = 1 THEN FlatBelow(curve.boot)
             ELSE IF it = Len(curve.boot) + 1 THEN FlatAbove(curve.boot)
             ELSE Interpolate(curve.boot[it - 1], curve.boot[it], t)

\* what a call leaves with: an exception or a returned value
Throws(what) == [throws |-> TRUE, error |-> what, value |-> 0]
Returns(v) == [throws |-> FALSE, error |-> "none", value |-> v]

\* DiscountCurve::df(t)
df(curve, t) ==
    IF NonFinite(t) THEN Throws("InvalidArgument")
    ELSE IF curve.boot # <<>> THEN Returns(dfBoot(curve, t))
    ELSE Returns(dfFlat(curve, t))

\* DiscountCurve::fwdBondPrice(t): 1 / df(t), or 0 for a df that is not positive
fwdBondPrice(curve, t) ==
    LET discount == df(curve, t)
    IN  IF discount.throws THEN discount
        ELSE IF ~IsNaN(discount.value) /\ discount.value > 0
             THEN Returns(MulDivR(DScale, DScale, discount.value))
             ELSE Returns(0)

\* ------------------------------------------------------------------------
\* bulletSchedule and Bond
\* ------------------------------------------------------------------------
\* std::lround(maturityYears * couponPerYear), maturity in units of 1/scale
TotalPaymentsIn(couponPerYear, maturity, scale) ==
    (2 * maturity * couponPerYear + scale) \div (2 * scale)

\* std::lround(maturityYears * couponPerYear), maturity in units of 1/TScale
TotalPayments(couponPerYear, maturity) ==
    TotalPaymentsIn(couponPerYear, maturity, TScale)

\* bulletSchedule's validation: the inputs on which it throws invalid_argument
bulletScheduleThrows_FaceUnchecked(face, cpnRate, couponPerYear, maturity) ==
    \/ NonFinite(face)
    \/ NonFinite(cpnRate)
    \/ NonFinite(maturity)
    \/ maturity <= 0
    \/ couponPerYear <= 0

bulletScheduleThrows(face, cpnRate, couponPerYear, maturity) ==
    \/ NonFinite(face)
    \/ NonFinite(cpnRate)
    \/ NonFinite(maturity)
    \/ maturity <= 0
    \/ couponPerYear <= 0
    \/ face <= 0

\* bulletSchedule(face, cpnRate, couponPerYear, maturityYears) on valid input,
\* times in units of 1/scale
bulletScheduleIn(face, cpnRate, couponPerYear, maturity, scale) ==
    LET couponAmount  == SMulDivR(cpnRate, face, RateScale * couponPerYear)
        timeStep      == scale \div couponPerYear
        totalPayments == TotalPaymentsIn(couponPerYear, maturity, scale)
        coupons == [i \in 1..totalPayments |->
                      [time   |-> IF i = totalPayments THEN maturity
                                  ELSE i * timeStep,
                       amount |-> couponAmount]]
    IN  IF totalPayments > 0
        THEN [coupons EXCEPT ![totalPayments].amount = @ + face]
        ELSE <<[time |-> maturity, amount |-> face]>>

\* bulletSchedule(face, cpnRate, couponPerYear, maturityYears) on valid input,
\* times in units of 1/TScale
bulletSchedule(face, cpnRate, couponPerYear, maturity) ==
    bulletScheduleIn(face, cpnRate, couponPerYear, maturity, TScale)

\* amount * df on doubles
FMulDf(amount, dfv) ==
    IF amount < 0 THEN -MulDivR(dfv, -amount, DScale) ELSE MulDivR(dfv, amount, DScale)

\* Bond::price(curve): the sum of amount * df(time), accumulated in order
RECURSIVE BondPriceFrom(_, _, _, _)
BondPriceFrom(cfs, curve, k, acc) ==
    IF k > Len(cfs) THEN acc
    ELSE BondPriceFrom(cfs, curve, k + 1,
                       acc + FMulDf(cfs[k].amount, dfFlat(curve, cfs[k].time)))

BondPrice(cfs, curve) == BondPriceFrom(cfs, curve, 1, 0)

\* ------------------------------------------------------------------------
\* YieldSolver helpers
\* ------------------------------------------------------------------------
\* YieldSolver::priceDifference for a finite yield: price(y) - targetPrice
priceDifference(cfs, yield, targetPrice, m) ==
    FSub(BondPrice(cfs, FlatCurve(yield, m)), targetPrice)

\* the finite-difference step h = max(1e-8, 1e-6*|y|): both operands are below
\* the yield grid's resolution, so the step is one grid unit
StepH(yield) == 1

\* numerator f(y+h) - f(y-h) of priceDifferenceDerivative (targetPrice = 0)
DerivativeNumerator(cfs, yield, m) ==
    FSub(priceDifference(cfs, yield + StepH(yield), 0, m),
         priceDifference(cfs, yield - StepH(yield), 0, m))

\* |priceError| < 1e-12: a price on the grid is a multiple of 1/PScale, so the
\* only grid value below the tolerance is zero
tolerance == 1
maxIterations == 100
BisectionIterations == 10

\* line 139: std::abs(priceError) < tolerance
Converged(priceError) == ~IsNaN(priceError) /\ Abs(priceError) < tolerance

DerivativeTooSmall_Never(numerator) == FALSE

\* line 146: std::abs(priceDerivative) < 1e-15. The derivative is
\* numerator/(2h); a non-zero numerator on the grid gives a magnitude of at
\* least YScale/(2*PScale), so only a zero numerator is below the threshold
DerivativeTooSmall(numerator) == ~IsNaN(numerator) /\ numerator = 0

\* the bounds applied after a Newton update: 0.0, 0.001 and 2.0 in yield units
ClampTest == 0
ClampLow == 262
ClampHigh == 524288

\* lines 153-157: if (y < 0.0) y = 0.001; if (y > 2.0) y = 2.0;
Clamp(y) ==
    IF IsNaN(y) THEN y
    ELSE IF y < ClampTest THEN ClampLow
    ELSE IF y > ClampHigh THEN ClampHigh
    ELSE y

\* line 151: y - priceError / priceDerivative, priceDerivative = numerator/(2h);
\* a division by a zero derivative gives an infinity of the quotient's sign
NewtonUpdate(y, priceError, numerator, h) ==
    IF IsNaN(y) \/ IsNaN(priceError) \/ IsNaN(numerator) THEN NaN
    ELSE IF numerator = 0
         THEN IF priceError = 0 THEN NaN
              ELSE IF priceError > 0 THEN NInf ELSE PInf
    ELSE y - DivRound(priceError * 2 * h, numerator)

BracketOutcome_NoWiden(fa, fb1, fb2) ==
    IF ProductPositive(fa, fb1)
    THEN [throws |-> TRUE, upper |-> YScale, fb |-> fb1, evals |-> <<0, YScale>>]
    ELSE [throws |-> FALSE, upper |-> YScale, fb |-> fb1, evals |-> <<0, YScale>>]

\* bisectionPhase, lines 91-110: with fa = f(0), fb1 = f(1) and fb2 = f(2),
\* whether the bracketing throws, the upper bound and fb it leaves, and the
\* yields f was evaluated at
BracketOutcome(fa, fb1, fb2) ==
    IF ProductPositive(fa, fb1)
    THEN [throws |-> ProductPositive(fa, fb2), upper |-> 2 * YScale, fb |-> fb2,
          evals |-> <<0, YScale, 2 * YScale>>]
    ELSE [throws |-> FALSE, upper |-> YScale, fb |-> fb1, evals |-> <<0, YScale>>]

BisectionLoopCond_OneMore(i) == i <= BisectionIterations

\* line 113: for (int i = 0; i < 10; ++i)
BisectionLoopCond(i) == i < BisectionIterations

NewtonLoopCond_OneMore(i) == i <= maxIterations

\* line 135: for (int i = 0; i < maxIterations; ++i)
NewtonLoopCond(i) == i < maxIterations

\* ------------------------------------------------------------------------
\* MonteCarlo: pure parts
\* ------------------------------------------------------------------------
\* Units: sigma in 1/SigmaScale, option expiry T in 1/MCTScale year, normal
\* draws Z in 1/ZScale, std::sqrt(T) in 1/SqrtScale, exponents in 1/XScale with
\* XScale = 2 * SigmaScale^2 * MCTScale = SigmaScale * SqrtScale * ZScale * 200
SigmaScale == 100
MCTScale == 4
ZScale == 2
SqrtScale == 2
XScale == 80000

\* std::sqrt(T): NaN for a negative argument
FSqrt(T) ==
    IF T < 0 THEN NaN
    ELSE CHOOSE r \in 0..T : r * r <= T /\ (r + 1) * (r + 1) > T

\* std::max(a, b) on doubles: (a < b) ? b : a
FMax(a, b) == IF a # NaN /\ b # NaN /\ a < b THEN b ELSE a

\* F0 * std::exp(x) for an exponent x in units of 1/XScale
PathValue(F0, x) == IF x = NaN THEN NaN ELSE FMulDf(F0, FExp(x, XScale))

\* the exponential of the array library's packet kernel: the same function
\* computed by another algorithm, so it can round differently in the last place
FExpPacket(X, XS) == FSquare(FSquare(ExpSeries(X, 4 * XS, 1, DScale, 0)))

\* how the build evaluates .exp() on an array: element by element through
\* std::exp, or through the library's packet kernel
ArrayExpKernels == {"std", "packet"}

\* F0 * (x).exp() for one element of the array expression
ArrayPathValue(F0, x, kernel) ==
    IF x = NaN THEN NaN
    ELSE FMulDf(F0, IF kernel = "std" THEN FExp(x, XScale) ELSE FExpPacket(x, XScale))

\* the k-th value std::normal_distribution returns from std::mt19937(seed):
\* a fixed stream per seed, in units of 1/ZScale
Stream(seed, k) == ((((seed % 7) + 2) * (k * k + 3 * k + 7)) % 9) - 4

\* MonteCarlo::payoff
payoff(FT, K, tp) ==
    IF tp = "Call" THEN FMax(FSub(FT, K), 0) ELSE FMax(FSub(K, FT), 0)

\* -0.5 * sigma * sigma * T
Drift(sigma, T) == -(sigma * sigma * T)

\* sigma * sqrtT * Z (lines 160, 166) and vol_sqrt_T * randoms (lines 193, 206)
VolTerm(sigma, sqrtT, Z) == IF sqrtT = NaN THEN NaN ELSE 200 * sigma * sqrtT * Z

\* lines 157-160: F0 * std::exp(drift + sigma * sqrtT * Z)
ScalarPath(opt, Z) ==
    PathValue(opt.F0, FAdd(Drift(opt.sigma, opt.T), VolTerm(opt.sigma, FSqrt(opt.T), Z)))

\* MonteCarlo::generatePaths: F0 * (drift + vol_sqrt_T * randoms).exp()
generatePaths(opt, randoms, kernel) ==
    [i \in 1..Len(randoms) |->
        ArrayPathValue(opt.F0, FAdd(Drift(opt.sigma, opt.T),
                                    VolTerm(opt.sigma, FSqrt(opt.T), randoms[i])),
                       kernel)]

generateAntitheticPaths_SameSign(opt, randoms, kernel) ==
    <<generatePaths(opt, randoms, kernel), generatePaths(opt, randoms, kernel)>>

\* MonteCarlo::generateAntitheticPaths: the paths of Z and of -Z
generateAntitheticPaths(opt, randoms, kernel) ==
    <<generatePaths(opt, randoms, kernel),
      generatePaths(opt, [i \in 1..Len(randoms) |-> -randoms[i]], kernel)>>

\* the accumulators of one simulation: generator position, payoffSum,
\* totalPaths, and the histories of draws taken and payoffs accumulated
\* (for mcPriceWithStats the payoff history is the payoffs vector)
RECURSIVE ScalarLoop(_, _, _, _, _)
\* lines 156-170 (75-84): the scalar loop over i = from..currentBatchSize
ScalarLoop(opt, cfg, acc, from, currentBatchSize) ==
    IF from > currentBatchSize THEN acc
    ELSE LET Z   == Stream(cfg.randomSeed, acc.pos + 1)
             p1  == payoff(ScalarPath(opt, Z), opt.K, opt.tp)
             p2  == payoff(ScalarPath(opt, -Z), opt.K, opt.tp)
             one == [pos   |-> acc.pos + 1,
                     sum   |-> FAdd(acc.sum, p1),
                     total |-> acc.total + 1,
                     draws |-> Append(acc.draws, Z),
                     log   |-> Append(acc.log, p1)]
             two == [one EXCEPT !.sum   = FAdd(one.sum, p2),
                                !.total = one.total + 1,
                                !.log   = Append(one.log, p2)]
         IN  ScalarLoop(opt, cfg, IF cfg.useAntithetic THEN two ELSE one,
                        from + 1, currentBatchSize)

RECURSIVE AccumulatePairs(_, _, _, _, _)
\* lines 139-142 (63-66): payoffSum += payoff(paths1(i)); += payoff(paths2(i))
AccumulatePairs(opt, paths, sum, log, i) ==
    IF i > Len(paths[1]) THEN [sum |-> sum, log |-> log]
    ELSE LET p1 == payoff(paths[1][i], opt.K, opt.tp)
             p2 == payoff(paths[2][i], opt.K, opt.tp)
         IN  AccumulatePairs(opt, paths, FAdd(FAdd(sum, p1), p2),
                             Append(Append(log, p1), p2), i + 1)

RECURSIVE AccumulatePaths(_, _, _, _, _)
\* lines 149-151 (69-71): payoffSum += payoff(paths(i))
AccumulatePaths(opt, paths, sum, log, i) ==
    IF i > Len(paths) THEN [sum |-> sum, log |-> log]
    ELSE LET p == payoff(paths[i], opt.K, opt.tp)
         IN  AccumulatePaths(opt, paths, FAdd(sum, p), Append(log, p), i + 1)

DrawBatch_Reseeded(seed, pos, currentBatchSize) ==
    [i \in 1..currentBatchSize |-> Stream(seed, i)]

\* lines 130-133 (55-58): fill randoms with the generator's next
\* currentBatchSize draws
DrawBatch(seed, pos, currentBatchSize) ==
    [i \in 1..currentBatchSize |-> Stream(seed, pos + i)]

\* lines 129-153 (55-72): the array branch for one batch
VectorBatch(opt, cfg, acc, currentBatchSize, kernel) ==
    LET randoms == DrawBatch(cfg.randomSeed, acc.pos, currentBatchSize)
        res == IF cfg.useAntithetic
               THEN AccumulatePairs(opt, generateAntitheticPaths(opt, randoms, kernel),
                                    acc.sum, acc.log, 1)
               ELSE AccumulatePaths(opt, generatePaths(opt, randoms, kernel),
                                    acc.sum, acc.log, 1)
    IN  [pos   |-> acc.pos + currentBatchSize,
         sum   |-> res.sum,
         total |-> acc.total + (IF cfg.useAntithetic THEN 2 * currentBatchSize
                                ELSE currentBatchSize),
         draws |-> acc.draws \o randoms,
         log   |-> res.log]

Min(a, b) == IF a < b THEN a ELSE b

\* line 126 (51): std::min(config.batchSize, N - batch)
CurrentBatchSize(batchSize, N, batch) == Min(batchSize, N - batch)

\* lines 125-172 (50-86): one pass of the batch loop body
ProcessBatch(opt, cfg, acc, N, batch, kernel) ==
    LET currentBatchSize == CurrentBatchSize(cfg.batchSize, N, batch)
    IN  IF cfg.enableVectorization /\ currentBatchSize > 1
        THEN VectorBatch(opt, cfg, acc, currentBatchSize, kernel)
        ELSE ScalarLoop(opt, cfg, acc, 1, currentBatchSize)

\* payoffSum / totalPaths on doubles: 0.0 / 0 is NaN
MeanPayoff(sum, total) ==
    IF sum = NaN THEN NaN
    ELSE IF total = 0 THEN (IF sum = 0 THEN NaN ELSE IF sum > 0 THEN PInf ELSE NInf)
    ELSE DivRound(sum, total)

\* df * x on doubles
Discounted(dfv, x) == IF x = NaN THEN NaN ELSE FMulDf(x, dfv)

\* line 175: df * (payoffSum / totalPaths)
SimulatedPrice(dfv, sum, total) == Discounted(dfv, MeanPayoff(sum, total))

\* line 96: df * sum / payoffs.size()
StatsPrice(dfv, sum, size) == MeanPayoff(Discounted(dfv, sum), size)

RECURSIVE ISqrtBetween(_, _, _)
\* the integer square root of x, searched between lo and hi
ISqrtBetween(x, lo, hi) ==
    IF lo >= hi THEN lo
    ELSE LET mid == (lo + hi + 1) \div 2
         IN  IF mid * mid <= x THEN ISqrtBetween(x, mid, hi)
             ELSE ISqrtBetween(x, lo, mid - 1)

\* std::sqrt of a value in price units (PScale = 1024 * 1024): NaN for a
\* negative or NaN argument
FSqrtP(x) ==
    IF x = NaN \/ x < 0 THEN NaN
    ELSE IF x = PInf THEN PInf
    ELSE 1024 * ISqrtBetween(x, 0, 32768)

\* p * p on doubles, in price units
FSq(p) == IF p = NaN THEN NaN ELSE MulDivR(Abs(p), Abs(p), PScale)

RECURSIVE SumSquares(_, _, _)
\* lines 90-94: sumSquares += p * p over the payoffs in order
SumSquares(payoffs, k, acc) ==
    IF k > Len(payoffs) THEN acc
    ELSE SumSquares(payoffs, k + 1, FAdd(acc, FSq(payoffs[k])))

\* lines 98-99: (sumSquares / size) - (sum / size) * (sum / size)
Variance(sum, sumSquares, size) ==
    FSub(MeanPayoff(sumSquares, size), FSq(MeanPayoff(sum, size)))

\* line 100: df * std::sqrt(variance / size)
StandardError(dfv, sum, sumSquares, size) ==
    Discounted(dfv, FSqrtP(MeanPayoff(Variance(sum, sumSquares, size), size)))

\* line 101: 1.96 * standardError
ConfidenceInterval95(se) == IF se = NaN THEN NaN ELSE MulDivR(se, 196, 100)

\* MCResult's members other than price, as default-initialised
NoStats == [effectivePaths |-> 0, standardError |-> 0, confidenceInterval95 |-> 0]

\* MonteCarlo::Config(): batchSize 8000, useAntithetic, randomSeed 42,
\* enableVectorization
DefaultBatchSize == 8000
DefaultSeed == 42

DefaultConfig ==
    [batchSize |-> DefaultBatchSize, useAntithetic |-> TRUE,
     randomSeed |-> DefaultSeed, enableVectorization |-> TRUE]

\* ------------------------------------------------------------------------
\* Black76 (unnamed/part_003)
\* ------------------------------------------------------------------------
\* timeToExpiry and its square root are in units of 1/BTScale; volatility,
\* d1, d2 and logarithms in units of 1/LogScale; normCDF and discountFactor
\* in units of 1/DScale; forwardPrice, strike and prices in units of 1/PScale.
\* A product smaller than half a unit rounds to zero, as a product of doubles
\* below the smallest subnormal does.
BTScale == 16384

\* -x on doubles
FNeg(x) ==
    IF x = NaN THEN NaN ELSE IF x = PInf THEN NInf ELSE IF x = NInf THEN PInf ELSE -x

\* the magnitude past which normCDF is 0 or 1 to the last place: quotients
\* are kept within it
DLimit == 8 * LogScale

\* num / den on doubles, both in units of 1/LogScale: 0/0 is NaN, x/0 an
\* infinity
FDivD(num, den) ==
    IF den = 0 THEN (IF num = 0 THEN NaN ELSE IF num > 0 THEN PInf ELSE NInf)
    ELSE IF Abs(num) \div den >= 8 THEN (IF num > 0 THEN DLimit ELSE -DLimit)
    ELSE SMulDivR(num, LogScale, den)

\* the value of a one-element set: an intermediate result is computed once
\* and then used by value
Only(S) == CHOOSE v \in S : TRUE

\* std::sqrt(T) for T > 0
SqrtT(T) == ISqrtBetween(T * BTScale, 0, 32768)

\* sigma * std::sqrt(T)
VolSqrtT(sigma, T) == Only({ MulDivR(sigma, r, BTScale) : r \in {SqrtT(T)} })

\* 0.5 * sigma * sigma * T
HalfVariance(sigma, T) ==
    Only({ MulDivR(v, T, 2 * BTScale) : v \in {MulDivR(sigma, sigma, LogScale)} })

\* std::log(F / K) for F, K > 0
LogRatio(F, K) ==
    IF F <= K THEN Only({ FLog(r) : r \in {MulDivR(F, DScale, K)} })
    ELSE Only({ -FLog(r) : r \in {MulDivR(K, DScale, F)} })

\* Black76::d1 for T > 0 and sigma > 0
d1(F, K, T, sigma) ==
    Only({ FDivD(num, den) :
             num \in {LogRatio(F, K) + HalfVariance(sigma, T)},
             den \in {VolSqrtT(sigma, T)} })

\* Black76::d2: d1 - sigma * sqrt(T)
d2(F, K, T, sigma) ==
    Only({ IF d \in {NaN, PInf, NInf} THEN d ELSE d - VolSqrtT(sigma, T) :
             d \in {d1(F, K, T, sigma)} })

RECURSIVE ExpNeg(_)
\* std::exp(-x) for x >= 0 in units of 1/LogScale
ExpNeg(x) ==
    IF x <= 4 * LogScale THEN FExp(-x, LogScale)
    ELSE Only({ FSquare(r) : r \in {ExpNeg(x \div 2)} })

\* (a1 t + a2 t^2 + a3 t^3 + a4 t^4 + a5 t^5) by Horner's rule
ErfcPolynomial(t) ==
    LET h5   == 17807428
        h4   == -24379845 + SMulDivR(h5, t, DScale)
        h3   == 23847365 + SMulDivR(h4, t, DScale)
        h2   == -4773063 + SMulDivR(h3, t, DScale)
        h1   == 4275331 + SMulDivR(h2, t, DScale)
    IN  SMulDivR(h1, t, DScale)

\* t = 1 / (1 + p z), p = 0.3275911
ErfcT(z) ==
    Only({ MulDivR(DScale \div 2, DScale, den \div 2) :
             den \in {DScale + MulDivR(z, 8 * 3275911, 10000000)} })

\* 1 - std::erf(z) for z >= 0 in units of 1/LogScale: the rational
\* approximation 1 - erf z = (a1 t + ... + a5 t^5) exp(-z^2)
Erfc(z) ==
    Only({ Only({ MulDivR(poly, ex, DScale) :
                    poly \in {ErfcPolynomial(t)},
                    ex \in {Only({ ExpNeg(z2) : z2 \in {MulDivR(z, z, LogScale)} })} }) :
             t \in {ErfcT(z)} })

\* std::erf(x / std::sqrt(2.0)): odd in x, 1 and -1 at the infinities
ErfOverSqrt2(x) ==
    IF x = PInf THEN DScale
    ELSE IF x = NInf THEN -DScale
    ELSE Only({ Only({ IF x < 0 THEN -e ELSE e : e \in {DScale - Erfc(z)} }) :
                  z \in {MulDivR(Abs(x), 46341, 65536)} })

\* Black76::normCDF: 0.5 * (1.0 + std::erf(x / std::sqrt(2.0)))
normCDF(x) == IF x = NaN THEN NaN ELSE DivRound(DScale + ErfOverSqrt2(x), 2)

\* strike * normCDF(d) and forwardPrice * normCDF(d)
TimesCDF(amount, cdf) == IF cdf = NaN THEN NaN ELSE MulDivR(amount, cdf, DScale)

\* the branch for expired and zero-volatility options
Degenerate(T, sigma) == T <= 0 \/ sigma <= 0

\* the regular branch of Black76::price from the four values of normCDF
RegularPrice(F, K, D, isCall, Nd1, Nd2, NNegd1, NNegd2) ==
    IF isCall
    THEN Only({ Discounted(D, v) :
                  v \in {FSub(TimesCDF(F, Nd1), TimesCDF(K, Nd2))} })
    ELSE Only({ Discounted(D, v) :
                  v \in {FSub(TimesCDF(K, NNegd2), TimesCDF(F, NNegd1))} })

\* Black76::price
Black76_price(F, K, T, sigma, D, isCall) ==
    IF Degenerate(T, sigma)
    THEN IF isCall THEN Discounted(D, FMax(F - K, 0))
         ELSE Discounted(D, FMax(K - F, 0))
    ELSE Only({ Only({ RegularPrice(F, K, D, isCall, Nd1, Nd2, NNegd1, NNegd2) :
                          Nd1 \in {normCDF(d1_val)}, Nd2 \in {normCDF(d2_val)},
                          NNegd1 \in {normCDF(FNeg(d1_val))},
                          NNegd2 \in {normCDF(FNeg(d2_val))} }) :
                   d1_val \in {d1(F, K, T, sigma)}, d2_val \in {d2(F, K, T, sigma)} })

\* the regular branch of Black76::delta from the two values of normCDF
RegularDelta(D, isCall, Nd1, NNegd1) ==
    IF isCall THEN TimesCDF(D, Nd1) ELSE FNeg(TimesCDF(D, NNegd1))

\* Black76::delta, in units of 1/DScale
Black76_delta(F, K, T, sigma, D, isCall) ==
    IF Degenerate(T, sigma)
    THEN IF isCall THEN (IF F > K THEN D ELSE 0)
         ELSE (IF F < K THEN -D ELSE 0)
    ELSE Only({ Only({ RegularDelta(D, isCall, Nd1, NNegd1) :
                          Nd1 \in {normCDF(d1_val)},
                          NNegd1 \in {normCDF(FNeg(d1_val))} }) :
                   d1_val \in {d1(F, K, T, sigma)} })

\* ------------------------------------------------------------------------
\* Sensitivity (engines/Sensitivity.cpp)
\* ------------------------------------------------------------------------
\* cash-flow amounts, prices and their derivatives are in units of 1/SEScale,
\* times in units of 1/TScale, yields in units of 1/YScale, discount factors,
\* their derivatives and the ratios in units of 1/DScale
SEScale == 65536

\* cf.amount * x on doubles, x in units of 1/DScale
TimesAmount(amount, x) ==
    IF (amount < 0) = (x < 0) THEN MulDivR(Abs(amount), Abs(x), DScale)
    ELSE -MulDivR(Abs(amount), Abs(x), DScale)

\* num / den on doubles, the quotient in units of 1/DScale: 0/0 is NaN, x/0
\* an infinity
Quotient(num, den) ==
    IF den = 0 THEN (IF num = 0 THEN NaN ELSE IF num > 0 THEN PInf ELSE NInf)
    ELSE IF (num < 0) = (den < 0) THEN MulDivR(DScale, Abs(num), Abs(den))
    ELSE -MulDivR(DScale, Abs(num), Abs(den))

\* std::pow(1.0 + yield / m, -m * time - extra) for a whole number of periods
PowBase(time, yield, m, extra) ==
    FPowNeg(m * YScale + yield, m * YScale, ((m * time) \div TScale) + extra)

\* Sensitivity::discountFactor
discountFactor(time, yield, compounding) ==
    IF compounding = Continuous THEN FExp(-(yield * time), YScale * TScale)
    ELSE PowBase(time, yield, compounding, 0)

\* Sensitivity::discountFactorDelta
discountFactorDelta(time, yield, compounding) ==
    IF compounding = Continuous
    THEN -MulDivR(FExp(-(yield * time), YScale * TScale), time, TScale)
    ELSE -MulDivR(PowBase(time, yield, compounding, 1), time, TScale)

\* Sensitivity::discountFactorGamma
discountFactorGamma(time, yield, compounding) ==
    IF compounding = Continuous
    THEN MulDivR(FExp(-(yield * time), YScale * TScale), time * time, TScale * TScale)
    ELSE MulDivR(PowBase(time, yield, compounding, 2),
                 time * time * compounding + time * TScale,
                 TScale * TScale * compounding)

\* Sensitivity::price: P += cf.amount * df over the cash flows, in order
RECURSIVE PriceFrom(_, _, _, _, _)
PriceFrom(cashFlows, yield, compounding, k, P) ==
    IF k > Len(cashFlows) THEN P
    ELSE PriceFrom(cashFlows, yield, compounding, k + 1,
                   P + TimesAmount(cashFlows[k].amount,
                                   discountFactor(cashFlows[k].time, yield, compounding)))

Sensitivity_price(cashFlows, yield, compounding) ==
    PriceFrom(cashFlows, yield, compounding, 1, 0)

\* Sensitivity::priceDelta: dP_dy += cf.amount * delta_df
RECURSIVE PriceDeltaFrom(_, _, _, _, _)
PriceDeltaFrom(cashFlows, yield, compounding, k, dP_dy) ==
    IF k > Len(cashFlows) THEN dP_dy
    ELSE PriceDeltaFrom(cashFlows, yield, compounding, k + 1,
                        dP_dy + TimesAmount(cashFlows[k].amount,
                                            discountFactorDelta(cashFlows[k].time, yield,
                                                                compounding)))

priceDelta(cashFlows, yield, compounding) ==
    PriceDeltaFrom(cashFlows, yield, compounding, 1, 0)

\* Sensitivity::priceGamma: d2P_dy2 += cf.amount * gamma_df
RECURSIVE PriceGammaFrom(_, _, _, _, _)
PriceGammaFrom(cashFlows, yield, compounding, k, d2P_dy2) ==
    IF k > Len(cashFlows) THEN d2P_dy2
    ELSE PriceGammaFrom(cashFlows, yield, compounding, k + 1,
                        d2P_dy2 + TimesAmount(cashFlows[k].amount,
                                              discountFactorGamma(cashFlows[k].time, yield,
                                                                  compounding)))

priceGamma(cashFlows, yield, compounding) ==
    PriceGammaFrom(cashFlows, yield, compounding, 1, 0)

\* Sensitivity::modifiedDuration: 0.0 when P == 0.0, else -dP_dy / P
modifiedDuration_Unguarded(cashFlows, yield, compounding) ==
    LET P     == Sensitivity_price(cashFlows, yield, compounding)
        dP_dy == priceDelta(cashFlows, yield, compounding)
    IN  Quotient(-dP_dy, P)

modifiedDuration(cashFlows, yield, compounding) ==
    LET P     == Sensitivity_price(cashFlows, yield, compounding)
        dP_dy == priceDelta(cashFlows, yield, compounding)
    IN  IF P = 0 THEN 0 ELSE Quotient(-dP_dy, P)

\* 1 basis point = 0.0001
BasisPoints == 10000

\* Sensitivity::dv01: -dP_dy * 0.0001
dv01(cashFlows, yield, compounding) ==
    DivRound(-priceDelta(cashFlows, yield, compounding), BasisPoints)

\* Sensitivity::convexity: 0.0 when P == 0.0, else d2P_dy2 / P
convexity(cashFlows, yield, compounding) ==
    LET P       == Sensitivity_price(cashFlows, yield, compounding)
        d2P_dy2 == priceGamma(cashFlows, yield, compounding)
    IN  IF P = 0 THEN 0 ELSE Quotient(d2P_dy2, P)

\* ------------------------------------------------------------------------
\* State
\* ------------------------------------------------------------------------
VARIABLES
    ysPc,       \* position of YieldSolver::solve: idle, solve, bisect, newton, done, failed
    ysBond,     \* the bond's cash flows (Bond::cfs_)
    ysTarget,   \* targetPrice
    ysM,        \* Compounding m
    ysY0,       \* the initialGuess argument y0 of solve
    ysGenY,     \* the flat yield the target price was generated from, or NaN
    ysA,        \* bisectionPhase: a
    ysB,        \* bisectionPhase: b_upper
    ysFa,       \* bisectionPhase: fa
    ysFb,       \* bisectionPhase: fb
    ysI,        \* bisectionPhase: loop counter i
    ysY,        \* newtonRaphsonPhase: y
    ysN,        \* newtonRaphsonPhase: loop counter i
    ysResult,   \* value returned by solve
    ysError,    \* exception that left solve: none, RootNotBracketed, InvalidArgument
    ysEvals,    \* history: yields f was evaluated at by bisectionPhase
    ysWidth0,   \* history: width of the bracket the bisection loop started from
    ysMid,      \* history: value returned by bisectionPhase
    ysLast      \* history: what the last Newton iteration did

ysVars == <<ysPc, ysBond, ysTarget, ysM, ysY0, ysGenY, ysA, ysB, ysFa, ysFb,
            ysI, ysY, ysN, ysResult, ysError, ysEvals, ysWidth0, ysMid, ysLast>>

VARIABLES
    mcPc,       \* position of the simulation call: idle, call, loop, done
    mcEntry,    \* entry point: mcPrice, mcPriceAdvanced, mcPriceWithStats
    mcOpt,      \* F0, K, sigma, T, df, tp
    mcN,        \* pathCount N
    mcCfg,      \* the Config in effect
    mcBatch,    \* loop variable batch
    mcAcc,      \* generator position, payoffSum, totalPaths, histories
    mcKernel,   \* how this build evaluates the array exp
    mcResult,   \* returned price
    mcStats,    \* the other members of the MCResult of mcPriceWithStats
    mcPasses    \* history: how many times the batch loop body has run

mcVars == <<mcPc, mcEntry, mcOpt, mcN, mcCfg, mcBatch, mcAcc, mcKernel, mcResult,
            mcStats, mcPasses>>

VARIABLES
    ccCalls,    \* concurrent simulation calls: each call's arguments and locals
    ccKernel    \* how this build evaluates the array exp

ccVars == <<ccCalls, ccKernel>>

VARIABLES
    dcPc,       \* the DiscountCurve object: idle, new, ready, threw
    dcCurve,    \* its members boot_, y_, m_
    dcRet,      \* the last call made on it: operation, argument t and outcome
    dcArgs      \* the constructor's arguments, and the caller's quotes after it

dcVars == <<dcPc, dcCurve, dcRet, dcArgs>>

VARIABLES
    cfPc,       \* the bulletSchedule call: idle, call, returned, threw
    cfArgs,     \* its arguments face, cpnRate, couponPerYear, maturityYears
    cfOut       \* the cash flows it returned

cfVars == <<cfPc, cfArgs, cfOut>>

VARIABLES
    bkPc,       \* the Black76 calls: idle, call, priced, delta
    bkArgs,     \* their arguments F, K, T, sigma, D
    bkOut       \* what they returned for the call and for the put

bkVars == <<bkPc, bkArgs, bkOut>>

VARIABLES
    sePc,       \* the Sensitivity calls: idle, call
    seArgs,     \* their arguments cashFlows, yield, compounding
    seOut       \* the value each function called so far returned

seVars == <<sePc, seArgs, seOut>>

vars == <<ysVars, mcVars, ccVars, dcVars, cfVars, bkVars, seVars>>

\* the state a step of the yield solver leaves alone
ysOthers == <<mcVars, ccVars, dcVars, cfVars, bkVars, seVars>>

\* the state a step of a single Monte Carlo call leaves alone
mcOthers == <<ysVars, ccVars, dcVars, cfVars, bkVars, seVars>>

\* the state a step of the concurrent Monte Carlo calls leaves alone
ccOthers == <<ysVars, mcVars, dcVars, cfVars, bkVars, seVars>>

\* the state a step on the discount curve leaves alone
dcOthers == <<ysVars, mcVars, ccVars, cfVars, bkVars, seVars>>

\* the state a bulletSchedule call leaves alone
cfOthers == <<ysVars, mcVars, ccVars, dcVars, bkVars, seVars>>

\* the state a Black76 call leaves alone
bkOthers == <<ysVars, mcVars, ccVars, dcVars, cfVars, seVars>>

\* the state a Sensitivity call leaves alone
seOthers == <<ysVars, mcVars, ccVars, dcVars, cfVars, bkVars>>

\* no bulletSchedule, Black76 or Sensitivity call
cfIdle == cfPc = "idle" /\ cfArgs = <<>> /\ cfOut = <<>>
bkIdle == bkPc = "idle" /\ bkArgs = <<>> /\ bkOut = <<>>
seIdle == sePc = "idle" /\ seArgs = <<>> /\ seOut = <<>>
pureIdle == cfIdle /\ bkIdle /\ seIdle

\* no concurrent simulation calls
ccIdle == ccCalls = <<>> /\ ccKernel = "std"

NoCurve == [boot |-> <<>>, y |-> 0, m |-> Continuous]
NoCall == [op |-> "none", t |-> 0, out |-> Returns(0)]

\* no discount curve under construction or in use
NoArgs == [kind |-> "none", flatYield |-> 0, cmp |-> Continuous, quotes |-> <<>>,
           callerQuotes |-> <<>>]

dcIdle == dcPc = "idle" /\ dcCurve = NoCurve /\ dcRet = NoCall /\ dcArgs = NoArgs

NoAcc == [pos |-> 0, sum |-> 0, total |-> 0, draws |-> <<>>, log |-> <<>>]

\* no simulation call in progress
mcIdle ==
    /\ mcPc = "idle" /\ mcEntry = "none" /\ mcOpt = <<>> /\ mcN = 0
    /\ mcCfg = DefaultConfig /\ mcBatch = 0 /\ mcAcc = NoAcc /\ mcKernel = "std"
    /\ mcResult = 0 /\ mcStats = NoStats /\ mcPasses = 0

\* ------------------------------------------------------------------------
\* Inputs of the yield solver
\* ------------------------------------------------------------------------
MaxMaturity == 4

\* <<face, cpnRate, couponPerYear, maturity>>: 5% semi-annual bonds of face
\* 100 maturing after 1..MaxMaturity half-years, a two-year zero-coupon bond
\* and a two-year annual bond of face 0.0001
BondInputs ==
    { <<100 * PScale, 5, 2, mat>> : mat \in 1..MaxMaturity } \cup
    { <<100 * PScale, 0, 1, 2 * TScale>>, <<100, 5, 1, 2 * TScale>> }

\* compounding conventions for which m*t is integral on the bond's schedule
CompoundingFor(couponPerYear) ==
    IF couponPerYear = 1 THEN {Annual, Semi, Continuous} ELSE {Semi, Continuous}

\* generating yields: 0, 0.00038, 0.06, 0.5, 1.0, 1.5, 2.0
GenYields == {0, 100, 15729, YScale \div 2, YScale, 3 * (YScale \div 2), 2 * YScale}

\* 0.05 (the default) and 0.10
InitialGuesses == {13107, 26214}

NoLast == [kind |-> "none", y |-> 0, err |-> 0, num |-> 0, raw |-> 0]

ysInit ==
    \E bi \in BondInputs, y0 \in InitialGuesses :
      \E m \in CompoundingFor(bi[3]) :
        LET cfs == bulletSchedule(bi[1], bi[2], bi[3], bi[4]) IN
        /\ ~bulletScheduleThrows(bi[1], bi[2], bi[3], bi[4])
        /\ ysBond = cfs
        /\ ysM = m
        /\ ysY0 = y0
        /\ \/ \E g \in GenYields :
                /\ ysGenY = g
                /\ ysTarget = BondPrice(cfs, FlatCurve(g, m))
           \/ /\ ysGenY = NaN
              /\ ysTarget \in { BondPrice(cfs, FlatCurve(0, m)) + PScale,
                                BondPrice(cfs, FlatCurve(2 * YScale, m)) - 1,
                                NaN }
        /\ ysPc = "solve"
        /\ ysA = 0 /\ ysB = 0 /\ ysFa = 0 /\ ysFb = 0 /\ ysI = 0
        /\ ysY = 0 /\ ysN = 0 /\ ysResult = 0 /\ ysError = "none"
        /\ ysEvals = <<>> /\ ysWidth0 = 0 /\ ysMid = 0 /\ ysLast = NoLast
        /\ mcIdle
        /\ ccIdle
        /\ dcIdle
        /\ pureIdle

\* f(y) = price(y) - targetPrice of the call in progress
f(y) == priceDifference(ysBond, y, ysTarget, ysM)

\* ------------------------------------------------------------------------
\* YieldSolver::solve, step by step
\* ------------------------------------------------------------------------
\* bisectionPhase, lines 91-110: evaluate f(0) and f(1), widen to 2, or throw
Bracket ==
    /\ ysPc = "solve"
    /\ LET fa  == f(0)
           out == BracketOutcome(fa, f(YScale), f(2 * YScale))
       IN  /\ ysFa' = fa
           /\ ysFb' = out.fb
           /\ ysB' = out.upper
           /\ ysEvals' = out.evals
           /\ IF out.throws
              THEN /\ ysPc' = "failed"
                   /\ ysError' = "RootNotBracketed"
                   /\ UNCHANGED ysWidth0
              ELSE /\ ysPc' = "bisect"
                   /\ ysWidth0' = out.upper
                   /\ UNCHANGED ysError
    /\ ysA' = 0
    /\ ysI' = 0
    /\ UNCHANGED <<ysBond, ysTarget, ysM, ysY0, ysGenY, ysY, ysN, ysResult,
                   ysMid, ysLast>>
    /\ UNCHANGED ysOthers

\* bisectionPhase, lines 113-124: one iteration of the loop
BisectionStep ==
    /\ ysPc = "bisect"
    /\ BisectionLoopCond(ysI)
    /\ LET c  == (ysA + ysB) \div 2
           fc == f(c)
       IN  /\ IF ProductNegative(ysFa, fc)
              THEN /\ ysB' = c /\ ysFb' = fc
                   /\ UNCHANGED <<ysA, ysFa>>
              ELSE /\ ysA' = c /\ ysFa' = fc
                   /\ UNCHANGED <<ysB, ysFb>>
           /\ ysEvals' = Append(ysEvals, c)
    /\ ysI' = ysI + 1
    /\ UNCHANGED <<ysPc, ysBond, ysTarget, ysM, ysY0, ysGenY, ysY, ysN, ysResult,
                   ysError, ysWidth0, ysMid, ysLast>>
    /\ UNCHANGED ysOthers

\* solve lines 81-84: newtonRaphsonPhase is given the value bisectionPhase
\* returned; solve's own y0 is passed to neither phase
NewtonStart_Guess(yieldBisection, y0) == y0
NewtonStart(yieldBisection, y0) == yieldBisection

\* bisectionPhase line 126 and solve line 84: return the midpoint, which
\* newtonRaphsonPhase takes as its starting yield (line 131)
BisectionReturn ==
    /\ ysPc = "bisect"
    /\ ~BisectionLoopCond(ysI)
    /\ ysMid' = (ysA + ysB) \div 2
    /\ ysY' = NewtonStart((ysA + ysB) \div 2, ysY0)
    /\ ysN' = 0
    /\ ysPc' = "newton"
    /\ UNCHANGED <<ysBond, ysTarget, ysM, ysY0, ysGenY, ysA, ysB, ysFa, ysFb, ysI,
                   ysResult, ysError, ysEvals, ysWidth0, ysLast>>
    /\ UNCHANGED ysOthers

\* newtonRaphsonPhase, lines 135-158: one iteration of the loop
NewtonStep ==
    /\ ysPc = "newton"
    /\ NewtonLoopCond(ysN)
    /\ IF FlatCurveThrows(ysY)
       THEN \* priceDifference builds DiscountCurve(yield, ...), which throws
            /\ ysPc' = "failed"
            /\ ysError' = "InvalidArgument"
            /\ ysLast' = [kind |-> "throw", y |-> ysY, err |-> 0, num |-> 0, raw |-> 0]
            /\ UNCHANGED <<ysY, ysN, ysResult>>
       ELSE LET priceError == f(ysY)
                h          == StepH(ysY)
                numerator  == DerivativeNumerator(ysBond, ysY, ysM)
                raw        == NewtonUpdate(ysY, priceError, numerator, h)
            IN  /\ UNCHANGED ysError
                /\ IF Converged(priceError)
                   THEN /\ ysPc' = "done"
                        /\ ysResult' = ysY
                        /\ ysLast' = [kind |-> "converged", y |-> ysY,
                                      err |-> priceError, num |-> 0, raw |-> ysY]
                        /\ UNCHANGED <<ysY, ysN>>
                   ELSE IF DerivativeTooSmall(numerator)
                   THEN /\ ysPc' = "done"
                        /\ ysResult' = ysY
                        /\ ysLast' = [kind |-> "break", y |-> ysY,
                                      err |-> priceError, num |-> numerator, raw |-> ysY]
                        /\ UNCHANGED <<ysY, ysN>>
                   ELSE /\ ysY' = Clamp(raw)
                        /\ ysN' = ysN + 1
                        /\ ysLast' = [kind |-> "update", y |-> ysY,
                                      err |-> priceError, num |-> numerator, raw |-> raw]
                        /\ UNCHANGED <<ysPc, ysResult>>
    /\ UNCHANGED <<ysBond, ysTarget, ysM, ysY0, ysGenY, ysA, ysB, ysFa, ysFb, ysI,
                   ysEvals, ysWidth0, ysMid>>
    /\ UNCHANGED ysOthers

\* newtonRaphsonPhase, line 160: the loop ran maxIterations times
NewtonExhausted ==
    /\ ysPc = "newton"
    /\ ~NewtonLoopCond(ysN)
    /\ ysPc' = "done"
    /\ ysResult' = ysY
    /\ UNCHANGED <<ysBond, ysTarget, ysM, ysY0, ysGenY, ysA, ysB, ysFa, ysFb, ysI,
                   ysY, ysN, ysError, ysEvals, ysWidth0, ysMid, ysLast>>
    /\ UNCHANGED ysOthers

ysNext == Bracket \/ BisectionStep \/ BisectionReturn \/ NewtonStep \/ NewtonExhausted

SpecYS == ysInit /\ [][ysNext]_vars

\* no yield solve in progress
ysIdle ==
    /\ ysPc = "idle" /\ ysBond = <<>> /\ ysTarget = 0 /\ ysM = Annual /\ ysY0 = 0
    /\ ysGenY = 0 /\ ysA = 0 /\ ysB = 0 /\ ysFa = 0 /\ ysFb = 0 /\ ysI = 0
    /\ ysY = 0 /\ ysN = 0 /\ ysResult = 0 /\ ysError = "none"
    /\ ysEvals = <<>> /\ ysWidth0 = 0 /\ ysMid = 0 /\ ysLast = NoLast

\* ------------------------------------------------------------------------
\* Inputs of the Monte Carlo engine
\* ------------------------------------------------------------------------
MaxN == 4
MaxBatch == 3

\* the passes of the batch loop that are followed
MaxPasses == 8

\* F0 = 1.3, K = 1.25, sigma = 0.20, df = 0.95; T of one year, zero, minus one year
OptionInputs ==
    { [F0 |-> (13 * PScale) \div 10, K |-> (5 * PScale) \div 4, sigma |-> 20,
       T |-> T, df |-> (95 * DScale) \div 100, tp |-> tp] :
         T \in {MCTScale, 0, -MCTScale}, tp \in {"Call", "Put"} }

Seeds == {DefaultSeed, 123}

ConfigInputs ==
    [batchSize : 0..MaxBatch, useAntithetic : BOOLEAN, randomSeed : Seeds,
     enableVectorization : BOOLEAN]

mcInit ==
    /\ ysIdle
    /\ ccIdle
    /\ dcIdle
    /\ pureIdle
    /\ mcPc = "call"
    /\ mcOpt \in OptionInputs
    /\ mcN \in 0..MaxN
    /\ mcKernel \in ArrayExpKernels
    /\ \/ mcEntry = "mcPrice" /\ mcCfg = DefaultConfig
       \/ mcEntry \in {"mcPriceAdvanced", "mcPriceWithStats"} /\ mcCfg \in ConfigInputs
    /\ mcBatch = 0
    /\ mcAcc = NoAcc
    /\ mcResult = 0 /\ mcStats = NoStats /\ mcPasses = 0

\* ------------------------------------------------------------------------
\* MonteCarlo, step by step
\* ------------------------------------------------------------------------
\* mcPrice / mcPriceAdvanced: seed the generator, enter simulateVectorized;
\* lines 111-122: an expired option returns its discounted payoff at F0
SimulateEnter ==
    /\ mcPc = "call"
    /\ mcEntry \in {"mcPrice", "mcPriceAdvanced"}
    /\ IF mcOpt.T <= 0
       THEN /\ mcPc' = "done"
            /\ mcResult' = Discounted(mcOpt.df, payoff(mcOpt.F0, mcOpt.K, mcOpt.tp))
       ELSE /\ mcPc' = "loop"
            /\ UNCHANGED mcResult
    /\ mcBatch' = 0
    /\ mcAcc' = NoAcc
    /\ UNCHANGED <<mcEntry, mcOpt, mcN, mcCfg, mcKernel, mcStats, mcPasses>>
    /\ UNCHANGED mcOthers

\* mcPriceWithStats, lines 34-47: seed the generator, reserve the payoffs
StatsEnter ==
    /\ mcPc = "call"
    /\ mcEntry = "mcPriceWithStats"
    /\ mcPc' = "loop"
    /\ mcStats' = [NoStats EXCEPT !.effectivePaths =
                       IF mcCfg.useAntithetic THEN mcN * 2 ELSE mcN]
    /\ mcBatch' = 0
    /\ mcAcc' = NoAcc
    /\ UNCHANGED <<mcEntry, mcOpt, mcN, mcCfg, mcKernel, mcResult, mcPasses>>
    /\ UNCHANGED mcOthers

\* lines 125-172 (50-86): one pass of the batch loop
BatchStep ==
    /\ mcPc = "loop"
    /\ mcBatch < mcN
    /\ mcPasses < MaxPasses
    /\ mcPasses' = mcPasses + 1
    /\ mcAcc' = ProcessBatch(mcOpt, mcCfg, mcAcc, mcN, mcBatch, mcKernel)
    /\ mcBatch' = mcBatch + mcCfg.batchSize
    /\ UNCHANGED <<mcPc, mcEntry, mcOpt, mcN, mcCfg, mcKernel, mcResult, mcStats>>
    /\ UNCHANGED mcOthers

\* line 175: return df * (payoffSum / totalPaths)
SimulateReturn ==
    /\ mcPc = "loop"
    /\ mcEntry \in {"mcPrice", "mcPriceAdvanced"}
    /\ ~(mcBatch < mcN)
    /\ mcPc' = "done"
    /\ mcResult' = SimulatedPrice(mcOpt.df, mcAcc.sum, mcAcc.total)
    /\ UNCHANGED <<mcEntry, mcOpt, mcN, mcCfg, mcBatch, mcAcc, mcKernel, mcStats, mcPasses>>
    /\ UNCHANGED mcOthers

\* lines 88-103: price, standardError and confidenceInterval95 from the payoffs
StatsReturn ==
    /\ mcPc = "loop"
    /\ mcEntry = "mcPriceWithStats"
    /\ ~(mcBatch < mcN)
    /\ mcPc' = "done"
    /\ mcResult' = StatsPrice(mcOpt.df, mcAcc.sum, Len(mcAcc.log))
    /\ LET se == StandardError(mcOpt.df, mcAcc.sum, SumSquares(mcAcc.log, 1, 0),
                               Len(mcAcc.log))
       IN  mcStats' = [mcStats EXCEPT !.standardError = se,
                                      !.confidenceInterval95 = ConfidenceInterval95(se)]
    /\ UNCHANGED <<mcEntry, mcOpt, mcN, mcCfg, mcBatch, mcAcc, mcKernel, mcPasses>>
    /\ UNCHANGED mcOthers

mcNext == SimulateEnter \/ StatsEnter \/ BatchStep \/ SimulateReturn \/ StatsReturn

SpecMC == mcInit /\ [][mcNext]_vars

\* ------------------------------------------------------------------------
\* Concurrent Monte Carlo calls
\* ------------------------------------------------------------------------
CallIds == {1, 2}
MaxConcN == 2

\* the arguments of one of the concurrent calls: a one-year call option, N
\* paths, batches of one or two paths, antithetic variates, either seed
ConcCallInputs ==
    { [pc |-> "call", entry |-> e, N |-> n, cfg |-> cfg, batch |-> 0, acc |-> NoAcc,
       result |-> 0,
       opt |-> [F0 |-> (13 * PScale) \div 10, K |-> (5 * PScale) \div 4, sigma |-> 20,
                T |-> MCTScale, df |-> (95 * DScale) \div 100, tp |-> "Call"]] :
        e \in {"mcPriceAdvanced", "mcPriceWithStats"}, n \in 1..MaxConcN,
        cfg \in [batchSize : {1, 2}, useAntithetic : {TRUE}, randomSeed : Seeds,
                 enableVectorization : {TRUE}] }

ccInit ==
    /\ ysIdle
    /\ mcIdle
    /\ dcIdle
    /\ pureIdle
    /\ ccKernel \in ArrayExpKernels
    /\ ccCalls \in [CallIds -> ConcCallInputs]

GeneratorOf_Shared(calls, self) ==
    calls[1].acc.pos + calls[2].acc.pos

\* the position of the generator call self draws from: its own local
\* std::mt19937 rng(config.randomSeed) (lines 16, 24, 34)
GeneratorOf(calls, self) == calls[self].acc.pos

\* mcPriceAdvanced / mcPriceWithStats of call self: seed the generator and
\* enter the batch loop, or return the expired option's payoff
ccEnter(self) ==
    LET c == ccCalls[self] IN
    /\ c.pc = "call"
    /\ ccCalls' = [ccCalls EXCEPT ![self] =
          IF c.entry # "mcPriceWithStats" /\ c.opt.T <= 0
          THEN [c EXCEPT !.pc = "done",
                         !.result = Discounted(c.opt.df, payoff(c.opt.F0, c.opt.K, c.opt.tp))]
          ELSE [c EXCEPT !.pc = "loop", !.batch = 0, !.acc = NoAcc]]
    /\ UNCHANGED ccKernel
    /\ UNCHANGED ccOthers

\* one pass of the batch loop of call self
ccBatchStep(self) ==
    LET c    == ccCalls[self]
        from == [c.acc EXCEPT !.pos = GeneratorOf(ccCalls, self)]
        to   == ProcessBatch(c.opt, c.cfg, from, c.N, c.batch, ccKernel)
    IN
    /\ c.pc = "loop"
    /\ c.batch < c.N
    /\ ccCalls' = [ccCalls EXCEPT ![self] =
          [c EXCEPT !.batch = c.batch + c.cfg.batchSize,
                    !.acc = IF from.pos = c.acc.pos THEN to
                            ELSE [to EXCEPT !.pos = c.acc.pos + (to.pos - from.pos)]]]
    /\ UNCHANGED ccKernel
    /\ UNCHANGED ccOthers

\* the return of call self after its batch loop
ccReturn(self) ==
    LET c == ccCalls[self] IN
    /\ c.pc = "loop"
    /\ ~(c.batch < c.N)
    /\ ccCalls' = [ccCalls EXCEPT ![self] =
          [c EXCEPT !.pc = "done",
                    !.result = IF c.entry = "mcPriceWithStats"
                               THEN StatsPrice(c.opt.df, c.acc.sum, Len(c.acc.log))
                               ELSE SimulatedPrice(c.opt.df, c.acc.sum, c.acc.total)]]
    /\ UNCHANGED ccKernel
    /\ UNCHANGED ccOthers

ccNext == \E self \in CallIds : ccEnter(self) \/ ccBatchStep(self) \/ ccReturn(self)

SpecMCConc == ccInit /\ [][ccNext]_vars

\* ------------------------------------------------------------------------
\* DiscountCurve: construction and calls
\* ------------------------------------------------------------------------
MaxQuotes == 3

\* yields 5%, -1%, 0 and the non-finite ones
FlatYields == {13107, -2621, 0, NaN, PInf, NInf}
Compoundings == {Annual, Semi, Quarterly, Monthly, Continuous}

\* quote times of 1, 2 and 4 years
QuoteTimes == {TScale, 2 * TScale, 4 * TScale}

\* quote discount factors 0.9 and 0.5
QuoteDfs == {15099494, 8388608}

\* times and discount factors that are zero, negative, NaN or infinite
BadTimes == {0, -TScale, NaN, PInf}
BadDfs == {0, -8388608, NaN, PInf}

\* the quotes the constructor accepts: 0.9 at one year, 0.9 and 0.5 at two
\* years, 0.5 at four years
ValidQuotes ==
    {q \in [time : QuoteTimes, df : QuoteDfs] :
        \/ q.time = 2 * TScale
        \/ (q.time = TScale) = (q.df = 15099494)}

Quotes ==
    ValidQuotes
        \cup {[time |-> b, df |-> 15099494] : b \in BadTimes}
        \cup {[time |-> TScale, df |-> b] : b \in BadDfs}

QuoteInputs == UNION {[1..n -> Quotes] : n \in 0..MaxQuotes}

\* arguments t of df and fwdBondPrice: non-finite, -1, 0, 0.5, 1, ..., 5 years
CallTimes == {NaN, PInf, NInf, -2, 0, 1, 2, 3, 4, 6, 8, 10}

dcInit ==
    /\ ysIdle
    /\ mcIdle
    /\ ccIdle
    /\ pureIdle
    /\ dcPc = "new"
    /\ dcCurve = NoCurve
    /\ dcRet = NoCall
    /\ dcArgs = NoArgs

\* DiscountCurve(flatYield, cmp, dc): std::invalid_argument leaves no object
ConstructFlat ==
    /\ dcPc = "new"
    /\ \E flatYield \in FlatYields, cmp \in Compoundings :
         /\ dcArgs' = [NoArgs EXCEPT !.kind = "flat", !.flatYield = flatYield,
                                     !.cmp = cmp]
         /\ IF FlatCurveThrows(flatYield)
            THEN dcPc' = "threw" /\ dcCurve' = dcCurve
            ELSE dcPc' = "ready" /\ dcCurve' = FlatCurve(flatYield, cmp)
    /\ UNCHANGED dcRet
    /\ UNCHANGED dcOthers

\* the caller's sequence after the constructor ran: the span is of const
\* quotes, boot_ is a copy and the copy is what std::sort reorders
CallerQuotesAfter_SortedInPlace(quotes, sorted) == sorted
CallerQuotesAfter(quotes, sorted) == quotes

\* DiscountCurve(quotes): std::invalid_argument leaves no object
ConstructBootstrapped ==
    /\ dcPc = "new"
    /\ \E quotes \in QuoteInputs :
         IF BootCurveThrows(quotes)
         THEN /\ dcPc' = "threw"
              /\ dcCurve' = dcCurve
              /\ dcArgs' = [NoArgs EXCEPT !.kind = "boot", !.quotes = quotes,
                                          !.callerQuotes = quotes]
         ELSE /\ dcPc' = "ready"
              /\ \E sorted \in SortedByTime(quotes) :
                   /\ dcCurve' = BootCurve(sorted)
                   /\ dcArgs' = [NoArgs EXCEPT !.kind = "boot", !.quotes = quotes,
                                    !.callerQuotes = CallerQuotesAfter(quotes, sorted)]
    /\ UNCHANGED dcRet
    /\ UNCHANGED dcOthers

\* the arguments the model calls df and fwdBondPrice with: on a flat curve
\* the positive ones are one and two years
CallTimeFor(curve, t) ==
    (curve.boot = <<>> /\ ~NonFinite(t) /\ t > 0) => t \in {TScale, 2 * TScale}

\* curve.df(t), a const member function
CallDf ==
    /\ dcPc = "ready"
    /\ \E t \in CallTimes :
         /\ CallTimeFor(dcCurve, t)
         /\ dcRet' = [op |-> "df", t |-> t, out |-> df(dcCurve, t)]
    /\ UNCHANGED <<dcPc, dcCurve, dcArgs>>
    /\ UNCHANGED dcOthers

\* curve.fwdBondPrice(t), a const member function
CallFwdBondPrice ==
    /\ dcPc = "ready"
    /\ \E t \in CallTimes :
         /\ CallTimeFor(dcCurve, t)
         /\ dcRet' = [op |-> "fwdBondPrice", t |-> t, out |-> fwdBondPrice(dcCurve, t)]
    /\ UNCHANGED <<dcPc, dcCurve, dcArgs>>
    /\ UNCHANGED dcOthers

dcNext == ConstructFlat \/ ConstructBootstrapped \/ CallDf \/ CallFwdBondPrice

SpecDC == dcInit /\ [][dcNext]_vars

\* ------------------------------------------------------------------------
\* bulletSchedule calls
\* ------------------------------------------------------------------------
\* maturities are in months here
CFScale == 12

\* face 100, 0.0001, and faces the function rejects
CFFaces == {100 * PScale, 100, 0, -(100 * PScale), NaN, PInf}

\* coupon rates 5%, 0, -2%, and non-finite ones
CFRates == {5, 0, -2, NaN, NInf}

CFFrequencies == {-2, 0, 1, 2, 4, 12}

\* maturities of 1, 6, 12 and 18 months, and maturities the function rejects
CFMaturities == {1, 6, 12, 18, 0, -12, NaN, PInf, NInf}

cfInit ==
    /\ ysIdle
    /\ mcIdle
    /\ ccIdle
    /\ dcIdle
    /\ bkIdle
    /\ seIdle
    /\ cfPc = "call"
    /\ cfArgs \in [face : CFFaces, cpnRate : CFRates, couponPerYear : CFFrequencies,
                   maturity : CFMaturities]
    /\ cfOut = <<>>

\* bulletSchedule(face, cpnRate, couponPerYear, maturityYears): throws
\* std::invalid_argument or returns the cash flows
BulletScheduleCall ==
    /\ cfPc = "call"
    /\ IF bulletScheduleThrows(cfArgs.face, cfArgs.cpnRate, cfArgs.couponPerYear,
                               cfArgs.maturity)
       THEN cfPc' = "threw" /\ cfOut' = cfOut
       ELSE /\ cfPc' = "returned"
            /\ cfOut' = bulletScheduleIn(cfArgs.face, cfArgs.cpnRate,
                                         cfArgs.couponPerYear, cfArgs.maturity, CFScale)
    /\ UNCHANGED cfArgs
    /\ UNCHANGED cfOthers

cfNext == BulletScheduleCall

SpecCF == cfInit /\ [][cfNext]_vars

\* ------------------------------------------------------------------------
\* SpecBK: one call of Black76::price or Black76::delta, for the call and
\* the put of the same (F, K, T, sigma, D)
\* ------------------------------------------------------------------------
\* forward prices 1.3, 1.25 and 1.0, strikes 1.25 and 1.0
BKForwards == {1363148, 1310720, PScale}
BKStrikes == {1310720, PScale}
\* one year, a quarter, the smallest positive time, today, and the past
BKExpiries == {BTScale, BTScale \div 4, 1, 0, -BTScale}
\* 20%, 40%, the smallest positive volatility, none, and a negative one
BKVolatilities == {419430, 838861, 1, 0, -209715}
\* discount factors 0.95 and 1
BKDiscounts == {15938355, DScale}

bkInit ==
    /\ ysIdle
    /\ mcIdle
    /\ ccIdle
    /\ dcIdle
    /\ cfIdle
    /\ seIdle
    /\ bkPc = "call"
    /\ bkArgs \in [F : BKForwards, K : BKStrikes, T : BKExpiries,
                   sigma : BKVolatilities, D : BKDiscounts]
    /\ bkOut = <<>>

\* Black76::price(F, K, T, sigma, D, Call) and (..., Put)
PriceCall ==
    /\ bkPc = "call"
    /\ bkPc' = "priced"
    /\ bkOut' = [call |-> Black76_price(bkArgs.F, bkArgs.K, bkArgs.T, bkArgs.sigma,
                                        bkArgs.D, TRUE),
                 put  |-> Black76_price(bkArgs.F, bkArgs.K, bkArgs.T, bkArgs.sigma,
                                        bkArgs.D, FALSE)]
    /\ UNCHANGED bkArgs
    /\ UNCHANGED bkOthers

\* Black76::delta(F, K, T, sigma, D, Call) and (..., Put)
DeltaCall ==
    /\ bkPc = "call"
    /\ bkPc' = "delta"
    /\ bkOut' = [call |-> Black76_delta(bkArgs.F, bkArgs.K, bkArgs.T, bkArgs.sigma,
                                        bkArgs.D, TRUE),
                 put  |-> Black76_delta(bkArgs.F, bkArgs.K, bkArgs.T, bkArgs.sigma,
                                        bkArgs.D, FALSE)]
    /\ UNCHANGED bkArgs
    /\ UNCHANGED bkOthers

bkNext == PriceCall \/ DeltaCall

SpecBK == bkInit /\ [][bkNext]_vars

\* ------------------------------------------------------------------------
\* SpecSE: the six public functions of Sensitivity, each called once on the
\* same (cashFlows, yield, compounding)
\* ------------------------------------------------------------------------
\* amounts 100, 105 and 5
SEFace == 100 * SEScale
SECoupon == 5 * SEScale

\* no cash flow; a zero-coupon bond; a coupon bond; a long and a short flow
\* of the same size at different times and at the same time; a zero flow; a
\* short flow
SECashFlows ==
    { <<>>,
      <<[time |-> TScale, amount |-> SEFace + SECoupon]>>,
      <<[time |-> TScale, amount |-> SECoupon],
        [time |-> 2 * TScale, amount |-> SEFace + SECoupon]>>,
      <<[time |-> TScale, amount |-> SEFace],
        [time |-> 2 * TScale, amount |-> -SEFace]>>,
      <<[time |-> TScale, amount |-> SEFace],
        [time |-> TScale, amount |-> -SEFace]>>,
      <<[time |-> TScale, amount |-> 0]>>,
      <<[time |-> TScale, amount |-> -SEFace]>> }

\* yields 0, 5% and 10%
SEYields == {0, 13107, 26214}
SECompoundings == {Continuous, Annual, Semi}

SEFunctions == {"price", "priceDelta", "priceGamma", "modifiedDuration", "dv01",
                "convexity"}

seInit ==
    /\ ysIdle
    /\ mcIdle
    /\ ccIdle
    /\ dcIdle
    /\ cfIdle
    /\ bkIdle
    /\ sePc = "call"
    /\ seArgs \in [cashFlows : SECashFlows, yield : SEYields,
                   compounding : SECompoundings]
    /\ seOut = <<>>

\* a function returns its value to the caller
SEReturn(name, value) ==
    /\ sePc = "call"
    /\ name \notin DOMAIN seOut
    /\ seOut' = [n \in (DOMAIN seOut) \cup {name} |->
                    IF n = name THEN value ELSE seOut[n]]
    /\ sePc' = IF DOMAIN seOut' = SEFunctions THEN "done" ELSE "call"
    /\ UNCHANGED seArgs
    /\ UNCHANGED seOthers

CallPrice ==
    SEReturn("price", Sensitivity_price(seArgs.cashFlows, seArgs.yield, seArgs.compounding))

CallPriceDelta ==
    SEReturn("priceDelta", priceDelta(seArgs.cashFlows, seArgs.yield, seArgs.compounding))

CallPriceGamma ==
    SEReturn("priceGamma", priceGamma(seArgs.cashFlows, seArgs.yield, seArgs.compounding))

CallModifiedDuration ==
    SEReturn("modifiedDuration",
             modifiedDuration(seArgs.cashFlows, seArgs.yield, seArgs.compounding))

CallDv01 ==
    SEReturn("dv01", dv01(seArgs.cashFlows, seArgs.yield, seArgs.compounding))

CallConvexity ==
    SEReturn("convexity", convexity(seArgs.cashFlows, seArgs.yield, seArgs.compounding))

seNext ==
    \/ CallPrice
    \/ CallPriceDelta
    \/ CallPriceGamma
    \/ CallModifiedDuration
    \/ CallDv01
    \/ CallConvexity

SpecSE == seInit /\ [][seNext]_vars

\* ------------------------------------------------------------------------
\* Properties of the Monte Carlo engine
\* ------------------------------------------------------------------------
\* the accumulators a scalar per-path loop over all N paths ends with
\* (batchSize = 1, vectorization off)
ScalarReference(opt, cfg, N) == ScalarLoop(opt, cfg, NoAcc, 1, N)

C2_ConsumesFirstNDraws ==
    (mcPc \in {"loop", "done"} /\ mcOpt.T > 0 /\ mcCfg.batchSize >= 1) =>
        /\ mcAcc.pos = Len(mcAcc.draws)
        /\ mcAcc.pos <= mcN
        /\ mcAcc.draws = [k \in 1..mcAcc.pos |-> Stream(mcCfg.randomSeed, k)]
        /\ mcPc = "done" => mcAcc.pos = mcN

C2_Witness ==
    /\ mcPc = "done" /\ mcOpt.T > 0
    /\ mcCfg.useAntithetic /\ mcCfg.enableVectorization
    /\ mcCfg.batchSize = 2 /\ mcN = 3
    /\ Len(mcAcc.draws) = 3 /\ Len(mcAcc.log) = 6

\* the payoff of the path of draw Z, by the scalar expression or by the array
\* expression of this build
PayoffsOf(opt, Z, kernel) ==
    LET x == FAdd(Drift(opt.sigma, opt.T), VolTerm(opt.sigma, FSqrt(opt.T), Z))
    IN  { payoff(ScalarPath(opt, Z), opt.K, opt.tp),
          payoff(ArrayPathValue(opt.F0, x, kernel), opt.K, opt.tp) }

\* C11: with antithetic variates every draw Z taken so far has contributed
\* exactly two adjacent payoffs, the one of Z then the one of -Z (one payoff
\* per draw without), totalPaths counts them, and when a simulation returns
\* it has aggregated 2N payoffs (N without), which is the effectivePaths that
\* mcPriceWithStats reports.
C11_AntitheticPairs ==
    mcPc \in {"loop", "done"} =>
        LET per == IF mcCfg.useAntithetic THEN 2 ELSE 1
            log == mcAcc.log
        IN  /\ Len(log) = per * Len(mcAcc.draws)
            /\ mcEntry # "mcPriceWithStats" => mcAcc.total = Len(log)
            /\ \A k \in 1..Len(mcAcc.draws) :
                 IF mcCfg.useAntithetic
                 THEN /\ log[2 * k - 1] \in PayoffsOf(mcOpt, mcAcc.draws[k], mcKernel)
                      /\ log[2 * k] \in PayoffsOf(mcOpt, -mcAcc.draws[k], mcKernel)
                 ELSE log[k] \in PayoffsOf(mcOpt, mcAcc.draws[k], mcKernel)
            /\ (mcPc = "done" /\ (mcOpt.T > 0 \/ mcEntry = "mcPriceWithStats")) =>
                 /\ Len(log) = per * mcN
                 /\ mcEntry = "mcPriceWithStats" => mcStats.effectivePaths = Len(log)

C11_Witness ==
    /\ mcPc = "done" /\ mcEntry = "mcPriceWithStats" /\ mcOpt.T > 0
    /\ mcCfg.useAntithetic /\ mcCfg.enableVectorization /\ mcCfg.batchSize = 2
    /\ mcN = 3 /\ mcStats.effectivePaths = 6 /\ Len(mcAcc.log) = 6
    /\ mcAcc.log[1] # mcAcc.log[2]

\* C12: for T <= 0 every entry point returns the discounted intrinsic payoff
\* df * payoff(F0), whatever N and the config are, and takes no draw from the
\* generator.
C12_ExpiredOption ==
    (mcPc = "done" /\ mcOpt.T <= 0) =>
        /\ mcResult = Discounted(mcOpt.df, payoff(mcOpt.F0, mcOpt.K, mcOpt.tp))
        /\ mcAcc.pos = 0
        /\ mcAcc.draws = <<>>

\* the number of chunks of N paths in batches of batchSize: ceil(N / batchSize)
ChunkCount(N, batchSize) == (N + batchSize - 1) \div batchSize

\* C13: every pass of the batch loop processes a chunk of at least one path,
\* batchSize paths in every chunk but possibly the last, so the sizes sum to
\* N and the loop ends after ceil(N / batchSize) passes, for every N >= 0 and
\* every batchSize.
C13_ChunksAndTermination ==
    (mcPc \in {"loop", "done"} /\ (mcOpt.T > 0 \/ mcEntry = "mcPriceWithStats")) =>
        /\ mcPasses <= mcN
        /\ mcPasses <= mcAcc.pos
        /\ mcBatch = mcPasses * mcCfg.batchSize
        /\ mcAcc.pos = Min(mcBatch, mcN)
        /\ (mcPc = "done" /\ mcCfg.batchSize >= 1) =>
             /\ mcPasses = ChunkCount(mcN, mcCfg.batchSize)
             /\ mcAcc.pos = mcN

RECURSIVE RunAlone(_, _, _, _, _, _)
\* the accumulators a call ends with when nothing else runs: the batch loop
\* from batch on
RunAlone(opt, cfg, N, batch, acc, kernel) ==
    IF batch < N
    THEN RunAlone(opt, cfg, N, batch + cfg.batchSize,
                  ProcessBatch(opt, cfg, acc, N, batch, kernel), kernel)
    ELSE acc

\* the price call c returns when it runs alone
AloneResult(c, kernel) ==
    IF c.entry # "mcPriceWithStats" /\ c.opt.T <= 0
    THEN Discounted(c.opt.df, payoff(c.opt.F0, c.opt.K, c.opt.tp))
    ELSE LET a == RunAlone(c.opt, c.cfg, c.N, 0, NoAcc, kernel)
         IN  IF c.entry = "mcPriceWithStats"
             THEN StatsPrice(c.opt.df, a.sum, Len(a.log))
             ELSE SimulatedPrice(c.opt.df, a.sum, a.total)

\* C14: however the steps of concurrent simulation calls interleave, every
\* call draws the leading values of the stream of its own seed and returns
\* the price it returns when run alone; two calls with the same arguments
\* return the same price.
C14_ConcurrentCallsIndependent ==
    /\ \A self \in DOMAIN ccCalls :
         LET c == ccCalls[self] IN
         /\ c.acc.draws = [k \in 1..Len(c.acc.draws) |-> Stream(c.cfg.randomSeed, k)]
         /\ c.pc = "done" => c.result = AloneResult(c, ccKernel)
    /\ \A i, j \in DOMAIN ccCalls :
         LET a == ccCalls[i]
             b == ccCalls[j]
         IN  (a.pc = "done" /\ b.pc = "done" /\ a.entry = b.entry /\ a.N = b.N
                 /\ a.cfg = b.cfg /\ a.opt = b.opt) => a.result = b.result

C14_Witness ==
    /\ DOMAIN ccCalls = CallIds
    /\ \A self \in CallIds : ccCalls[self].pc = "done" /\ ccCalls[self].N = 2
                             /\ ccCalls[self].cfg.batchSize = 1
    /\ ccCalls[1].cfg.randomSeed # ccCalls[2].cfg.randomSeed
    /\ ccCalls[1].result # ccCalls[2].result

\* lines 88-100 for the payoffs a run of mcPriceWithStats has stored
StandardErrorOf(dfv, acc) ==
    StandardError(dfv, acc.sum, SumSquares(acc.log, 1, 0), Len(acc.log))

\* a <= b on doubles
FLeq(a, b) == a # NaN /\ b # NaN /\ a <= b

\* C15: for the same seed and the same N >= 1 base draws, the standardError
\* mcPriceWithStats reports with useAntithetic = true is at most the one it
\* reports with useAntithetic = false.
C15_AntitheticReducesStandardError ==
    (mcPc = "done" /\ mcEntry = "mcPriceWithStats" /\ mcCfg.useAntithetic
        /\ mcOpt.T > 0 /\ mcN >= 1 /\ mcCfg.batchSize >= 1) =>
        FLeq(mcStats.standardError,
             StandardErrorOf(mcOpt.df,
                 RunAlone(mcOpt, [mcCfg EXCEPT !.useAntithetic = FALSE], mcN, 0,
                          NoAcc, mcKernel)))

\* ------------------------------------------------------------------------
\* Properties of DiscountCurve
\* ------------------------------------------------------------------------
\* C17: df(t) and fwdBondPrice(t) fail with InvalidArgument exactly when t is
\* NaN or an infinity, on flat and bootstrapped curves alike; minus infinity
\* is rejected although it is <= 0, and every finite t, negative included,
\* returns a value.
C17_NonFiniteTimeRejected ==
    dcRet.op \in {"df", "fwdBondPrice"} =>
        IF dcRet.t \in {NaN, PInf, NInf}
        THEN dcRet.out.throws /\ dcRet.out.error = "InvalidArgument"
        ELSE ~dcRet.out.throws

C17_Witness ==
    /\ dcPc = "ready" /\ dcCurve.boot # <<>>
    /\ dcRet.op = "fwdBondPrice" /\ dcRet.t = NInf
    /\ dcRet.out.throws /\ dcRet.out.error = "InvalidArgument"

\* C18: on every constructed curve, flat or bootstrapped, df(t) is 1.0 for
\* every finite t <= 0.
C18_OneAtOrBeforeToday ==
    (dcRet.op = "df" /\ dcRet.t \notin {NaN, PInf, NInf} /\ dcRet.t <= 0) =>
        ~dcRet.out.throws /\ dcRet.out.value = DScale

C18_Witness ==
    /\ dcPc = "ready" /\ Len(dcCurve.boot) = 2
    /\ dcCurve.boot[1].df # DScale
    /\ dcRet.op = "df" /\ dcRet.t = 0 /\ dcRet.out.value = DScale

\* C19: on a bootstrapped curve df(t) at the time of a stored quote is that
\* quote's discount factor, for the first, the interior and the last quotes.
C19_ExactAtQuoteTimes ==
    (dcRet.op = "df" /\ dcCurve.boot # <<>>) =>
        \A i \in 1..Len(dcCurve.boot) :
            dcCurve.boot[i].time = dcRet.t =>
                ~dcRet.out.throws /\ dcRet.out.value = dcCurve.boot[i].df

\* C20: on a bootstrapped curve the stored quotes are in time order, df(t) for
\* 0 < t below every quote's time is the first quote's discount factor and
\* df(t) for t above every quote's time is the last quote's.
C20_FlatExtrapolation ==
    (dcRet.op = "df" /\ dcCurve.boot # <<>> /\ dcRet.t \notin {NaN, PInf, NInf}
        /\ dcRet.t > 0) =>
        LET boot == dcCurve.boot
            n    == Len(boot)
        IN  /\ \A i \in 1..n : boot[1].time <= boot[i].time /\ boot[i].time <= boot[n].time
            /\ (\A i \in 1..n : dcRet.t < boot[i].time) =>
                   ~dcRet.out.throws /\ dcRet.out.value = boot[1].df
            /\ (\A i \in 1..n : dcRet.t > boot[i].time) =>
                   ~dcRet.out.throws /\ dcRet.out.value = boot[n].df

C20_Witness ==
    /\ dcPc = "ready" /\ Len(dcCurve.boot) = 3
    /\ dcCurve.boot[1].time < dcCurve.boot[2].time
    /\ dcCurve.boot[2].time < dcCurve.boot[3].time
    /\ dcCurve.boot[1].df # dcCurve.boot[3].df
    /\ dcRet.op = "df" /\ dcRet.t > dcCurve.boot[3].time
    /\ dcRet.out.value = dcCurve.boot[3].df

\* the rounding the fixed-point std::log and std::exp leave in a squared
\* discount factor, in units of 1/DScale
GeoTolerance == 128

C22_ConstructionRejects ==
    dcPc \in {"ready", "threw"} =>
        LET nonFinite == {NaN, PInf, NInf}
            rejected ==
                IF dcArgs.kind = "flat" THEN dcArgs.flatYield \in nonFinite
                ELSE \/ dcArgs.quotes = <<>>
                     \/ \E i \in 1..Len(dcArgs.quotes) :
                          \/ dcArgs.quotes[i].time \in nonFinite
                          \/ dcArgs.quotes[i].time <= 0
                          \/ dcArgs.quotes[i].df \in nonFinite
                          \/ dcArgs.quotes[i].df <= 0
        IN  /\ (dcPc = "threw") = rejected
            /\ dcPc = "threw" => dcCurve = NoCurve

C22_Witness ==
    /\ dcPc = "threw" /\ dcArgs.kind = "boot" /\ Len(dcArgs.quotes) = 3
    /\ dcArgs.quotes[1] \in ValidQuotes /\ dcArgs.quotes[2] \in ValidQuotes
    /\ dcArgs.quotes[3].df = PInf
    /\ dcCurve = NoCurve

\* C23: after a successful bootstrapped construction the stored quotes are in
\* strictly increasing time order: no two stored quotes share a time.
C23_StrictlyIncreasingTimes ==
    (dcPc = "ready" /\ dcCurve.boot # <<>>) =>
        \A i \in 1..(Len(dcCurve.boot) - 1) :
            dcCurve.boot[i].time < dcCurve.boot[i + 1].time

\* the sequences that hold the same quotes as seq in some order
Reorderings(seq) ==
    LET n == Len(seq)
    IN  {[i \in 1..n |-> seq[h[i]]] :
            h \in {g \in [1..n -> 1..n] : \A i, j \in 1..n : i # j => g[i] # g[j]}}

\* C30: for quotes of pairwise distinct times, the curve built from any
\* reordering of the caller's quotes stores the same sequence, so every
\* df(t) and fwdBondPrice(t) is the one of that sequence; the caller's quotes
\* are as they were passed, and queries leave the stored quotes as built.
C30_OrderInsensitive ==
    (dcPc = "ready" /\ dcArgs.kind = "boot"
        /\ \A i, j \in 1..Len(dcArgs.quotes) :
              i # j => dcArgs.quotes[i].time # dcArgs.quotes[j].time) =>
        /\ dcArgs.callerQuotes = dcArgs.quotes
        /\ \A p \in Reorderings(dcArgs.quotes) : SortedByTime(p) = {dcCurve.boot}
        /\ \A p \in Reorderings(dcArgs.quotes) : \A built \in SortedByTime(p) :
             /\ dcRet.op = "df" => dcRet.out = df(BootCurve(built), dcRet.t)
             /\ dcRet.op = "fwdBondPrice" =>
                  dcRet.out = fwdBondPrice(BootCurve(built), dcRet.t)

C30_Witness ==
    /\ dcPc = "ready" /\ dcArgs.kind = "boot" /\ Len(dcArgs.quotes) = 3
    /\ dcArgs.quotes[1].time > dcArgs.quotes[2].time
    /\ dcArgs.quotes[2].time > dcArgs.quotes[3].time
    /\ dcCurve.boot # dcArgs.quotes
    /\ dcArgs.callerQuotes = dcArgs.quotes
    /\ dcRet.op = "fwdBondPrice" /\ dcRet.t = 3 /\ ~dcRet.out.throws

\* ------------------------------------------------------------------------
\* Properties of bulletSchedule
\* ------------------------------------------------------------------------
\* C28: bulletSchedule fails, returning no cash flows, exactly when face,
\* coupon rate or maturity is NaN or infinite, or face, couponPerYear or
\* maturity is zero or negative; a negative finite coupon rate is accepted,
\* and every call that does not fail returns at least one cash flow.
C28_BulletScheduleRejects ==
    cfPc \in {"returned", "threw"} =>
        LET nonFinite == {NaN, PInf, NInf}
            rejected ==
                \/ cfArgs.face \in nonFinite
                \/ cfArgs.cpnRate \in nonFinite
                \/ cfArgs.maturity \in nonFinite
                \/ cfArgs.face <= 0
                \/ cfArgs.couponPerYear <= 0
                \/ cfArgs.maturity <= 0
        IN  /\ (cfPc = "threw") = rejected
            /\ cfPc = "threw" => cfOut = <<>>
            /\ cfPc = "returned" => Len(cfOut) >= 1

C28_Witness ==
    /\ cfPc = "returned" /\ cfArgs.cpnRate < 0 /\ cfArgs.cpnRate # NaN
    /\ cfArgs.cpnRate # NInf
    /\ cfArgs.maturity = 1 /\ cfArgs.couponPerYear = 2
    /\ cfOut = <<[time |-> 1, amount |-> cfArgs.face]>>

\* ------------------------------------------------------------------------
\* Properties of YieldSolver::solve
\* ------------------------------------------------------------------------
\* two doubles have the same strict sign (NaN and zero have none)
SameStrictSign(a, b) ==
    /\ a # NaN
    /\ b # NaN
    /\ (a > 0 /\ b > 0) \/ (a < 0 /\ b < 0)

\* C3: solve fails with RootNotBracketed exactly when f(0), f(1) have the same
\* strict sign and f(0), f(2) have the same strict sign; the failure leaves
\* solve before any bisection or Newton iteration; and when [0,1] brackets the
\* root the upper bound starts at 1 and bisectionPhase never evaluates f(2).
C3_RootNotBracketed ==
    ysPc # "solve" =>
        LET noChange01 == SameStrictSign(f(0), f(YScale))
            noChange02 == SameStrictSign(f(0), f(2 * YScale))
        IN  /\ (ysError = "RootNotBracketed") <=> (noChange01 /\ noChange02)
            /\ ysError = "RootNotBracketed" =>
                   /\ ysPc = "failed"
                   /\ ysI = 0
                   /\ ysN = 0
                   /\ ysLast.kind = "none"
                   /\ ysEvals = <<0, YScale, 2 * YScale>>
            /\ ~noChange01 =>
                   /\ ysWidth0 = YScale
                   /\ ysB <= YScale
                   /\ \A k \in 1..Len(ysEvals) : ysEvals[k] <= YScale

C3_Witness == ysPc = "failed" /\ ysError = "RootNotBracketed"

\* C4: whenever the root is bracketed the bisection loop runs exactly 10
\* times, also when a midpoint is an exact root; every iteration halves the
\* bracket, so the final width is the initial width / 1024, and the phase
\* returns the midpoint of the final bracket.
C4_ExactlyTenIterations ==
    /\ ysPc = "bisect" =>
           /\ ysI <= 10
           /\ (ysB - ysA) * (2 ^ ysI) = ysWidth0
    /\ (ysPc \in {"newton", "done"} \/ ysError = "InvalidArgument") =>
           /\ ysI = 10
           /\ (ysB - ysA) * 1024 = ysWidth0
           /\ 2 * ysMid = ysA + ysB
           /\ Len(ysEvals) = (IF ysWidth0 = YScale THEN 2 ELSE 3) + 10

C4_Witness ==
    /\ ysPc = "newton"
    /\ ysN = 0
    /\ ysI = 10
    /\ \E k \in 3..Len(ysEvals) : f(ysEvals[k]) = 0

\* C5: throughout the bisection phase f(a) and f(b) do not have the same
\* strict sign, from the accepted bracket on and after each iteration.
C5_BracketKeepsSignChange ==
    ysPc = "bisect" =>
        /\ ysFa = f(ysA)
        /\ ysFb = f(ysB)
        /\ ~SameStrictSign(ysFa, ysFb)

\* C6: after every Newton update the iterate is neither below 0.001 nor above
\* 2.0.
C6_IterateInClampRange ==
    ysLast.kind = "update" => (ysY >= ClampLow /\ ysY <= ClampHigh)

\* C7: the Newton phase starts from the bisection midpoint, never runs more
\* than 100 iterations, and returns the current yield unchanged as soon as an
\* iteration starts with |f(y)| below the tolerance; an update or a derivative
\* break only happens from a yield whose |f(y)| is not below the tolerance.
C7_NewtonStartBoundConvergence ==
    /\ ysN <= 100
    /\ (ysPc = "newton" /\ ysN = 0) => (ysY = ysMid /\ 2 * ysMid = ysA + ysB)
    /\ ysLast.kind = "converged" =>
           /\ ysPc = "done"
           /\ ysResult = ysLast.y
           /\ ysY = ysLast.y
           /\ ysTarget # NaN
           /\ Abs(f(ysResult)) < 1
    /\ ysLast.kind \in {"update", "break"} =>
           /\ ysLast.err = f(ysLast.y)
           /\ (ysLast.err = NaN \/ Abs(ysLast.err) >= 1)

C7_Witness == ysPc = "done" /\ ysLast.kind = "converged" /\ ysN > 0

\* C8: a Newton iteration whose estimated derivative is below the threshold
\* ends the phase at once with the yield it started from; no update divides by
\* such a derivative.
C8_DerivativeGuard ==
    /\ ysLast.kind = "update" =>
           /\ ysLast.num = DerivativeNumerator(ysBond, ysLast.y, ysM)
           /\ ysLast.num # 0
    /\ ysLast.kind = "break" =>
           /\ ysLast.num = DerivativeNumerator(ysBond, ysLast.y, ysM)
           /\ ysLast.num = 0
           /\ ysPc = "done"
           /\ ysResult = ysLast.y
           /\ ysY = ysLast.y

C8_Witness == ysPc = "done" /\ ysLast.kind = "break"

\* C9: RootNotBracketed is the only error that leaves solve.
C9_OnlyRootNotBracketed == ysError \in {"none", "RootNotBracketed"}

\* C10: solving for the yield of a price generated from a flat curve of yield
\* y returns y (1e-6 is below one yield unit of the grid).
C10_YieldRoundTrip ==
    (ysGenY # NaN /\ ysPc \in {"done", "failed"}) =>
        (ysPc = "done" /\ ysResult = ysGenY)

\* ------------------------------------------------------------------------
\* Black76 claims
\* ------------------------------------------------------------------------
\* the closed forms are compared to four units of the last place
ParityTolerance == 4

\* C24: put-call parity: for F, K > 0 and D in (0, 1], in the regular branch
\* and in the degenerate branch alike, price(call) - price(put) is D * (F - K)
\* within the tolerance.
C24_PutCallParity ==
    bkPc = "priced" =>
        /\ bkOut.call # NaN
        /\ bkOut.put # NaN
        /\ Abs(bkOut.call - bkOut.put
               - SMulDivR(bkArgs.F - bkArgs.K, bkArgs.D, DScale)) <= ParityTolerance

\* C25: delta relationship: for all inputs, in the regular branch and in the
\* degenerate branch alike, delta(call) - delta(put) is D within the tolerance.
C25_DeltaRelation ==
    bkPc = "delta" =>
        /\ bkOut.call # NaN
        /\ bkOut.put # NaN
        /\ Abs(bkOut.call - bkOut.put - bkArgs.D) <= ParityTolerance

\* ------------------------------------------------------------------------
\* Sensitivity claims
\* ------------------------------------------------------------------------
\* C26: modifiedDuration is -priceDelta / price and convexity is
\* priceGamma / price whenever price is not 0, both are exactly 0 when price
\* is 0 (the empty cash-flow sequence included), and dv01 is
\* -priceDelta * 0.0001 whatever the price.
C26_SensitivityRatios ==
    sePc = "done" =>
        /\ seOut.price # 0 =>
              /\ seOut.modifiedDuration = Quotient(-seOut.priceDelta, seOut.price)
              /\ seOut.convexity = Quotient(seOut.priceGamma, seOut.price)
        /\ seOut.price = 0 =>
              /\ seOut.modifiedDuration = 0
              /\ seOut.convexity = 0
        /\ seOut.dv01 = DivRound(-seOut.priceDelta, BasisPoints)

\* C26 witness: the functions have returned for cash flows whose price is 0
\* and whose price derivatives are not: both ratios are 0 and dv01 is not.
C26_Witness ==
    /\ sePc = "done"
    /\ seArgs.cashFlows # <<>>
    /\ seOut.price = 0
    /\ seOut.priceDelta # 0
    /\ seOut.priceGamma # 0
    /\ seOut.modifiedDuration = 0
    /\ seOut.convexity = 0
    /\ seOut.dv01 # 0

\* dv01 is compared to one unit of the last place
GreeksTolerance == 1

\* C27: for every cash-flow sequence, yield and compounding convention, dv01
\* is modifiedDuration * price * 0.0001.
C27_GreeksConsistent ==
    sePc = "done" =>
        Abs(seOut.dv01 - DivRound(TimesAmount(seOut.price, seOut.modifiedDuration),
                                  BasisPoints)) <= GreeksTolerance

RECURSIVE BisectionFrom(_, _, _, _, _, _, _)
\* bisectionPhase's loop from iteration i on: the value it returns
BisectionFrom(bond, target, m, a, b, fa, i) ==
    IF BisectionLoopCond(i)
    THEN LET c  == (a + b) \div 2
             fc == priceDifference(bond, c, target, m)
         IN  IF ProductNegative(fa, fc)
             THEN BisectionFrom(bond, target, m, a, c, fa, i + 1)
             ELSE BisectionFrom(bond, target, m, c, b, fc, i + 1)
    ELSE (a + b) \div 2

RECURSIVE NewtonFrom(_, _, _, _, _)
\* newtonRaphsonPhase's loop from iteration n on: how the call ends
NewtonFrom(bond, target, m, y, n) ==
    IF ~NewtonLoopCond(n) THEN [error |-> "none", result |-> y]
    ELSE IF FlatCurveThrows(y) THEN [error |-> "InvalidArgument", result |-> 0]
    ELSE LET priceError == priceDifference(bond, y, target, m)
             numerator  == DerivativeNumerator(bond, y, m)
         IN  IF Converged(priceError) \/ DerivativeTooSmall(numerator)
             THEN [error |-> "none", result |-> y]
             ELSE NewtonFrom(bond, target, m,
                             Clamp(NewtonUpdate(y, priceError, numerator, StepH(y))),
                             n + 1)

\* how solve(b, targetPrice, m, y0) ends
SolveOutcome(bond, target, m, y0) ==
    LET fa  == priceDifference(bond, 0, target, m)
        out == BracketOutcome(fa, priceDifference(bond, YScale, target, m),
                              priceDifference(bond, 2 * YScale, target, m))
    IN  IF out.throws THEN [error |-> "RootNotBracketed", result |-> 0]
        ELSE NewtonFrom(bond, target, m,
                        NewtonStart(BisectionFrom(bond, target, m, 0, out.upper, fa, 0),
                                    y0),
                        0)

\* the initial guesses a second caller may pass: 0.05, 0.10, 0 and 1.5
OtherGuesses == InitialGuesses \cup {0, 3 * (YScale \div 2)}

\* C29: what solve returns, or the failure it ends with, is the same for
\* every value of the initialGuess argument y0, the bond, target price and
\* compounding being the same.
C29_GuessIndependent ==
    ysPc \in {"done", "failed"} =>
        \A y0 \in OtherGuesses :
            SolveOutcome(ysBond, ysTarget, ysM, y0)
                = [error |-> ysError, result |-> ysResult]

C29_Witness ==
    /\ ysPc = "done" /\ ysY0 = 26214 /\ ysLast.kind = "converged"
    /\ ysResult # ysY0 /\ ysResult # ysMid /\ ysGenY = 15729

====
